---- MODULE Spec2Model ----
(***************************************************************************)
(* Turn-processing pipeline of the tutoring orchestrator                   *)
(* (backend/agents/orchestrator.py) over the session model                 *)
(* (backend/models/session.py) and the in-memory session store             *)
(* (backend/services/session_manager.py).                                  *)
(*                                                                         *)
(* One action per segment of process_turn between two suspension points    *)
(* (awaits of a completion call).  Floating-point scores are modelled as   *)
(* exact rationals <<numerator, denominator>> in lowest terms.             *)
(***************************************************************************)
EXTENDS Integers, Sequences, FiniteSets, TLC

\* ---------------------------------------------------------------------
\* Bounds of the model
\* ---------------------------------------------------------------------

\* number of process_turn calls explored per session
MaxTurns == 2

\* ---------------------------------------------------------------------
\* Optional values: None is the empty sequence, Some(x) a singleton
\* ---------------------------------------------------------------------

None == <<>>

Some(x) == <<x>>

\* Python truthiness of an Optional[str]: None and "" are falsy
Truthy(opt) == opt # None /\ opt[1] # ""

\* ---------------------------------------------------------------------
\* Exact rationals for the float scores
\* ---------------------------------------------------------------------

\* A singleton comprehension {F(x) : x \in {e}} evaluates e once and applies F
\* to its value; CHOOSE then takes the one element of the set.

RECURSIVE GCD(_, _)
GCD(a, b) ==
    LET F(v, w) == IF w = 0 THEN v ELSE GCD(w, v % w)
    IN  (CHOOSE r \in {F(x, y) : x \in {a}, y \in {b}} : TRUE)

Abs(n) == IF n < 0 THEN -n ELSE n

Norm(n, d) ==
    LET F(v, w) == IF v = 0 THEN <<0, 1>>
                   ELSE LET g == GCD(Abs(v), w) IN <<v \div g, w \div g>>
    IN  (CHOOSE r \in {F(x, y) : x \in {n}, y \in {d}} : TRUE)

RAdd(a, b) ==
    LET F(v, w) == LET l == (v[2] \div GCD(v[2], w[2])) * w[2]
                   IN  Norm(v[1] * (l \div v[2]) + w[1] * (l \div w[2]), l)
    IN  (CHOOSE r \in {F(x, y) : x \in {a}, y \in {b}} : TRUE)

RNeg(a) ==
    LET F(v) == <<-v[1], v[2]>>
    IN  (CHOOSE r \in {F(x) : x \in {a}} : TRUE)

RSub(a, b) == RAdd(a, RNeg(b))

RMul(a, b) ==
    LET F(v, w) == LET g1 == GCD(Abs(v[1]), w[2])
                       g2 == GCD(Abs(w[1]), v[2])
                       h1 == IF g1 = 0 THEN 1 ELSE g1
                       h2 == IF g2 = 0 THEN 1 ELSE g2
                   IN  Norm((v[1] \div h1) * (w[1] \div h2),
                            (v[2] \div h2) * (w[2] \div h1))
    IN  (CHOOSE r \in {F(x, y) : x \in {a}, y \in {b}} : TRUE)

RLeq(a, b) ==
    LET F(v, w) == LET l == (v[2] \div GCD(v[2], w[2])) * w[2]
                   IN  v[1] * (l \div v[2]) <= w[1] * (l \div w[2])
    IN  (CHOOSE r \in {F(x, y) : x \in {a}, y \in {b}} : TRUE)

RLt(a, b) == ~RLeq(b, a)

RMin(a, b) ==
    LET F(v, w) == IF RLeq(v, w) THEN v ELSE w
    IN  (CHOOSE r \in {F(x, y) : x \in {a}, y \in {b}} : TRUE)

RMax(a, b) ==
    LET F(v, w) == IF RLeq(v, w) THEN w ELSE v
    IN  (CHOOSE r \in {F(x, y) : x \in {a}, y \in {b}} : TRUE)

Zero == <<0, 1>>

One == <<1, 1>>

\* ---------------------------------------------------------------------
\* Curriculum (read-only external data)
\* ---------------------------------------------------------------------

\* the study plan of the StudyPlanStep examples
Steps ==
    << [step_id |-> 1, type |-> "explain",  concept |-> "what_is_a_fraction"],
       [step_id |-> 2, type |-> "check",    concept |-> "what_is_a_fraction"],
       [step_id |-> 3, type |-> "practice", concept |-> "numerator_denominator"] >>

total_steps == Len(Steps)

\* StudyPlan.get_step: the step with that id, or None
get_step(step_id) ==
    IF \E i \in 1..Len(Steps) : Steps[i].step_id = step_id
    THEN Some(Steps[CHOOSE i \in 1..Len(Steps) :
                  /\ Steps[i].step_id = step_id
                  /\ \A j \in 1..(i - 1) : Steps[j].step_id # step_id])
    ELSE None

\* StudyPlan.get_concepts: the concepts of the plan
get_concepts == {Steps[i].concept : i \in 1..Len(Steps)}

\* ---------------------------------------------------------------------
\* Session model (backend/models/session.py)
\* ---------------------------------------------------------------------

SessionIds == {"sess_1"}

max_history == 10

\* create_session marking every concept as not yet assessed with the sentinel -1
create_session_unassessed_sentinel(sid) ==
    [ session_id           |-> sid,
      turn_count           |-> 0,
      current_step         |-> 1,
      last_question        |-> None,
      awaiting_response    |-> FALSE,
      mastery_estimates    |-> [c \in get_concepts |-> <<-1, 1>>],
      misconceptions       |-> <<>>,
      weak_areas           |-> <<>>,
      off_topic_count      |-> 0,
      warning_count        |-> 0,
      safety_flags         |-> <<>>,
      session_summary      |-> [ turn_timeline  |-> <<>>,
                                 concepts_taught |-> <<>>,
                                 examples_used  |-> <<>>,
                                 analogies_used |-> <<>>,
                                 progress_trend |-> "steady",
                                 stuck_points   |-> <<>> ],
      conversation_history |-> <<>> ]

create_session(sid) ==
    [ session_id           |-> sid,
      turn_count           |-> 0,
      current_step         |-> 1,
      last_question        |-> None,
      awaiting_response    |-> FALSE,
      mastery_estimates    |-> [c \in get_concepts |-> Zero],
      misconceptions       |-> <<>>,
      weak_areas           |-> <<>>,
      off_topic_count      |-> 0,
      warning_count        |-> 0,
      safety_flags         |-> <<>>,
      session_summary      |-> [ turn_timeline  |-> <<>>,
                                 concepts_taught |-> <<>>,
                                 examples_used  |-> <<>>,
                                 analogies_used |-> <<>>,
                                 progress_trend |-> "steady",
                                 stuck_points   |-> <<>> ],
      conversation_history |-> <<>> ]

current_step_data(s) == get_step(s.current_step)

is_complete(s) == s.current_step > total_steps

\* SessionState.progress_percentage, rounded down to a whole per cent
progress_percentage(s) ==
    IF total_steps = 0 THEN 0
    ELSE LET F(v) == IF v < 100 THEN v ELSE 100
         IN  (CHOOSE r \in {F(x) : x \in {((s.current_step - 1) * 100) \div total_steps}} : TRUE)

get_current_turn_id(s) == "turn_" \o ToString(s.turn_count + 1)

create_student_message(content) == [role |-> "student", content |-> content]

create_teacher_message(content) == [role |-> "teacher", content |-> content]

add_message(s, message) ==
    LET F(v) == LET h == Append(v.conversation_history, message)
                IN  [v EXCEPT !.conversation_history =
                        IF Len(h) > max_history
                        THEN SubSeq(h, Len(h) - max_history + 1, Len(h))
                        ELSE h]
    IN  (CHOOSE r \in {F(x) : x \in {s}} : TRUE)

update_mastery(s, concept, score) ==
    LET F(v, sc) == [v EXCEPT !.mastery_estimates =
                        [c \in (DOMAIN @) \cup {concept} |->
                            IF c = concept THEN RMax(Zero, RMin(One, sc)) ELSE @[c]]]
    IN  (CHOOSE r \in {F(x, y) : x \in {s}, y \in {score}} : TRUE)

add_misconception(s, concept, description) ==
    [s EXCEPT !.misconceptions =
                  Append(@, [concept |-> concept, description |-> description,
                             resolved |-> FALSE]),
              !.weak_areas =
                  IF \E i \in 1..Len(@) : @[i] = concept THEN @
                  ELSE Append(@, concept)]

\* advance_step without the test against total_steps
advance_step_unguarded(s) == [s EXCEPT !.current_step = @ + 1]

advance_step(s) ==
    LET F(v) == IF v.current_step < total_steps
                THEN [v EXCEPT !.current_step = @ + 1]
                ELSE v
    IN  (CHOOSE r \in {F(x) : x \in {s}} : TRUE)

set_question(s, question) ==
    [s EXCEPT !.last_question = Some(question), !.awaiting_response = TRUE]

clear_question(s) == [s EXCEPT !.awaiting_response = FALSE]

\* increment_turn leaving the counter as it is
increment_turn_keeps_count(s) == s

increment_turn(s) == [s EXCEPT !.turn_count = @ + 1]

\* ---------------------------------------------------------------------
\* Mastery estimate (backend/utils/state_utils.py)
\* ---------------------------------------------------------------------

learning_rate == <<1, 5>>

\* update_mastery_estimate without the gentler 0.5 factor for incorrect answers
update_mastery_estimate_full_penalty(current, is_correct, confidence) ==
    LET F(cur_m, conf) ==
            LET effective_rate == RMul(learning_rate, conf)
                delta == IF is_correct
                         THEN RMul(RSub(One, cur_m), effective_rate)
                         ELSE RNeg(RMul(cur_m, effective_rate))
            IN  RMax(Zero, RMin(One, RAdd(cur_m, delta)))
    IN  (CHOOSE r \in {F(x, y) : x \in {current}, y \in {confidence}} : TRUE)

update_mastery_estimate(current, is_correct, confidence) ==
    LET F(cur_m, conf) ==
            LET effective_rate == RMul(learning_rate, conf)
                delta == IF is_correct
                         THEN RMul(RSub(One, cur_m), effective_rate)
                         ELSE RNeg(RMul(RMul(cur_m, effective_rate), <<1, 2>>))
            IN  RMax(Zero, RMin(One, RAdd(cur_m, delta)))
    IN  (CHOOSE r \in {F(x, y) : x \in {current}, y \in {confidence}} : TRUE)

\* ---------------------------------------------------------------------
\* Decisions (backend/models/orchestrator_models.py)
\* ---------------------------------------------------------------------

Intents == {"answer", "question", "confusion", "off_topic", "unsafe", "continuation"}

SpecialistNames == {"explainer", "evaluator", "assessor", "topic_steering", "plan_adapter"}

ExecutionStrategies == {"sequential", "parallel", "conditional"}

\* a validated OrchestratorDecision
OrchestratorDecision(intent, specialists, strategy, reqs) ==
    [ intent                      |-> intent,
      specialists_to_call         |-> specialists,
      execution_strategy          |-> strategy,
      explainer_requirements      |-> IF "explainer" \in reqs THEN Some("explainer_req") ELSE None,
      evaluator_requirements      |-> IF "evaluator" \in reqs THEN Some("evaluator_req") ELSE None,
      assessor_requirements       |-> IF "assessor" \in reqs THEN Some("assessor_req") ELSE None,
      topic_steering_requirements |-> IF "topic_steering" \in reqs THEN Some("topic_steering_req") ELSE None,
      plan_adapter_requirements   |-> IF "plan_adapter" \in reqs THEN Some("plan_adapter_req") ELSE None ]

\* create_simple_decision leaving execution_strategy to the field's default
create_simple_decision_default_strategy(intent, specialists) ==
    OrchestratorDecision(intent, specialists, "parallel", {})

create_simple_decision(intent, specialists) ==
    OrchestratorDecision(intent, specialists, "sequential", {})

_create_fallback_decision(intent) ==
    create_simple_decision(intent,
        CASE intent = "answer"       -> <<"evaluator">>
          [] intent = "question"     -> <<"explainer">>
          [] intent = "confusion"    -> <<"explainer">>
          [] intent = "off_topic"    -> <<"topic_steering">>
          [] intent = "continuation" -> <<"assessor">>
          [] OTHER                   -> <<"explainer">>)

\* ---------------------------------------------------------------------
\* What the completion calls may return (inputs of the model)
\* ---------------------------------------------------------------------

\* validated SafetyOutput values
SafetyOutputs ==
    { [is_safe |-> TRUE, violation_type |-> None, guidance |-> None,
       should_warn |-> FALSE] }
    \cup
    { [is_safe |-> FALSE, violation_type |-> v, guidance |-> g, should_warn |-> w] :
        v \in {None, Some(""), Some("harassment")},
        g \in {None, Some("Please be kind to others.")},
        w \in BOOLEAN }

\* decisions the primary structured call may validate into
PrimaryDecisions ==
    { OrchestratorDecision("answer", <<"evaluator">>, "sequential", {"evaluator"}),
      OrchestratorDecision("answer", <<"evaluator", "explainer">>, "sequential",
                           {"explainer", "assessor"}),
      OrchestratorDecision("answer", <<"evaluator", "assessor">>, "parallel", {}),
      OrchestratorDecision("continuation", <<"assessor">>, "parallel", {"assessor"}),
      OrchestratorDecision("confusion", <<"explainer", "assessor">>, "conditional", {}),
      OrchestratorDecision("off_topic", <<"topic_steering">>, "parallel", {}),
      OrchestratorDecision("continuation", <<"plan_adapter">>, "sequential", {}),
      OrchestratorDecision("question", <<>>, "parallel", {}) }

\* intent strings the fallback classifier may return (IntentClassification.intent is a free string)
ClassifierIntents == Intents \cup {"greeting"}

Scores == {<<0, 1>>, <<9, 10>>, <<1, 1>>}

EvaluatorOutputs ==
    { [kind |-> "EvaluatorOutput", is_correct |-> c, score |-> sc,
       feedback |-> "feedback",
       misconceptions |-> IF c THEN <<>> ELSE <<"larger denominator means larger fraction">>,
       mastery_signal |-> IF c THEN "strong" ELSE "needs_remediation"] :
        c \in BOOLEAN, sc \in Scores }

AssessorOutputs ==
    { [kind |-> "AssessorOutput", question |-> "Which is larger, 1/4 or 1/2?",
       expected_answer |-> "1/2", rubric |-> "compares parts", hints |-> <<"draw it">>] }

ExplainerOutputs ==
    { [kind |-> "ExplainerOutput", explanation |-> "A fraction is a part of a whole.",
       examples |-> <<"pizza slices">>, analogies |-> <<>>] }

TopicSteeringOutputs ==
    { [kind |-> "TopicSteeringOutput", brief_response |-> None,
       redirect_message |-> "Let's get back to fractions."] }

PlanAdapterOutputs ==
    { [kind |-> "PlanAdapterOutput", rationale |-> "keep pace", new_pace |-> "normal"] }

\* validated outputs agent.execute may return for a specialist
SpecialistOutputs(name) ==
    CASE name = "evaluator"      -> EvaluatorOutputs
      [] name = "assessor"       -> AssessorOutputs
      [] name = "explainer"      -> ExplainerOutputs
      [] name = "topic_steering" -> TopicSteeringOutputs
      [] name = "plan_adapter"   -> PlanAdapterOutputs

\* texts of the composition completion, after strip()
ComposeTexts == {"Good thinking! Let's look at it together.", ""}

\* texts of the turn-summary completion
SummaryTexts == {"Explained fractions concept using pizza slices example"}

\* exceptions BaseAgent.execute raises
AgentErrors == {"AgentTimeoutError", "AgentExecutionError"}

\* BaseAgent.execute returned the validated output o
Returned(o) == [ok |-> TRUE, value |-> Some(o), error |-> ""]

\* BaseAgent.execute raised the exception e
Raised(e) == [ok |-> FALSE, value |-> None, error |-> e]

\* the outcomes of BaseAgent.execute for the specialist called name
ExecuteOutcomes(name) ==
    {Returned(o) : o \in SpecialistOutputs(name)} \cup {Raised(e) : e \in AgentErrors}

\* the dispatcher storing the exception object as the specialist's result
dispatch_result_keeps_exception(outcome) ==
    IF outcome.ok THEN outcome.value
    ELSE Some([kind |-> "Exception", error |-> outcome.error])

\* the entry _execute_parallel and _execute_sequential record for a specialist:
\* its output, or None when execute raised
dispatch_result(outcome) ==
    IF outcome.ok THEN outcome.value ELSE None

StudentMessages == {"I think it is 1/2"}

isinstance(out, kind) == out # None /\ out[1].kind = kind

\* ---------------------------------------------------------------------
\* Orchestrator helpers (backend/agents/orchestrator.py)
\* ---------------------------------------------------------------------

TurnResult(response, intent, specialists_called, state_changed) ==
    [ response |-> response, intent |-> intent,
      specialists_called |-> specialists_called, state_changed |-> state_changed ]

ApologyText == "I apologize, but I had a moment of confusion. Could you please repeat that?"

RedirectText == "Let's keep our conversation focused on learning. How can I help you with the lesson?"

\* the outer except branch of process_turn, returning a result that keeps the specialists list
turn_failed_result_keeps_list == TurnResult(ApologyText, "error", <<"safety">>, FALSE)

\* the outer except branch of process_turn
turn_failed_result == TurnResult(ApologyText, "error", <<>>, FALSE)

\* _handle_unsafe_message, session part, counting the message as off-topic too
handle_unsafe_message_off_topic(s, safety) ==
    [s EXCEPT !.safety_flags =
                  Append(@, IF Truthy(safety.violation_type)
                            THEN safety.violation_type[1] ELSE "unknown"),
              !.warning_count = IF safety.should_warn THEN @ + 1 ELSE @,
              !.off_topic_count = @ + 1]

\* _handle_unsafe_message, session part, warning on every unsafe message
handle_unsafe_message_always_warns(s, safety) ==
    [s EXCEPT !.safety_flags =
                  Append(@, IF Truthy(safety.violation_type)
                            THEN safety.violation_type[1] ELSE "unknown"),
              !.warning_count = @ + 1]

\* _handle_unsafe_message, session part
_handle_unsafe_message(s, safety) ==
    [s EXCEPT !.safety_flags =
                  Append(@, IF Truthy(safety.violation_type)
                            THEN safety.violation_type[1] ELSE "unknown"),
              !.warning_count = IF safety.should_warn THEN @ + 1 ELSE @]

\* _handle_unsafe_message, returned text
unsafe_response(safety) ==
    IF Truthy(safety.guidance) THEN safety.guidance[1] ELSE RedirectText

\* concept of the current step, as _update_state reads it
step_concept(s) ==
    IF current_step_data(s) # None THEN current_step_data(s)[1].concept ELSE "unknown"

RECURSIVE add_misconceptions(_, _, _)
add_misconceptions(s, concept, ms) ==
    LET F(v, w) == IF w = <<>> THEN v
                   ELSE add_misconceptions(add_misconception(v, concept, Head(w)),
                                           concept, Tail(w))
    IN  (CHOOSE r \in {F(x, y) : x \in {s}, y \in {ms}} : TRUE)

Get(outs, name) == IF name \in DOMAIN outs THEN outs[name] ELSE None

\* _update_state, "Handle evaluator output"
update_state_evaluator(s, ev) ==
    LET F(v) ==
            LET concept == step_concept(v)
                current_mastery == IF concept \in DOMAIN v.mastery_estimates
                                   THEN v.mastery_estimates[concept]
                                   ELSE <<1, 2>>
                new_mastery == update_mastery_estimate(current_mastery,
                                   ev[1].is_correct, ev[1].score)
                a == update_mastery(v, concept, new_mastery)
                b == add_misconceptions(a, concept, ev[1].misconceptions)
                c == clear_question(b)
            IN  IF ev[1].is_correct THEN advance_step(c) ELSE c
    IN  IF isinstance(ev, "EvaluatorOutput") THEN (CHOOSE r \in {F(x) : x \in {s}} : TRUE) ELSE s

\* _update_state, "Handle assessor output"
update_state_assessor(s, as) ==
    LET F(v) == set_question(v,
                    [ question_text   |-> as[1].question,
                      expected_answer |-> as[1].expected_answer,
                      concept         |-> step_concept(v),
                      rubric          |-> as[1].rubric,
                      hints           |-> as[1].hints,
                      hints_used      |-> 0 ])
    IN  IF isinstance(as, "AssessorOutput") THEN (CHOOSE r \in {F(x) : x \in {s}} : TRUE) ELSE s

\* _update_state, "Handle topic steering"
update_state_topic_steering(s, outs) ==
    IF "topic_steering" \in DOMAIN outs
    THEN [s EXCEPT !.off_topic_count = @ + 1]
    ELSE s

\* _update_state with the assessor block ahead of the evaluator block
update_state_assessor_first(s, intent, outs) ==
    [ session |-> update_state_topic_steering(
                      update_state_evaluator(
                          update_state_assessor(s, Get(outs, "assessor")),
                          Get(outs, "evaluator")),
                      outs),
      changed |-> \/ isinstance(Get(outs, "evaluator"), "EvaluatorOutput")
                  \/ isinstance(Get(outs, "assessor"), "AssessorOutput")
                  \/ "topic_steering" \in DOMAIN outs ]

\* _update_state: [session, changed]
_update_state(s, intent, outs) ==
    [ session |-> update_state_topic_steering(
                      update_state_assessor(
                          update_state_evaluator(s, Get(outs, "evaluator")),
                          Get(outs, "assessor")),
                      outs),
      changed |-> \/ isinstance(Get(outs, "evaluator"), "EvaluatorOutput")
                  \/ isinstance(Get(outs, "assessor"), "AssessorOutput")
                  \/ "topic_steering" \in DOMAIN outs ]

\* a section header for every specialist, failed ones included
format_specialist_outputs_lists_failed(names, outs) == names

\* _format_specialist_outputs: the section headers of the composer prompt
_format_specialist_outputs(names, outs) ==
    SelectSeq(names, LAMBDA n : outs[n] # None)

_generate_fallback_response(s, intent) ==
    LET current_step == get_step(s.current_step)
        concept == IF current_step # None THEN current_step[1].concept ELSE "the topic"
    IN  CASE intent = "continuation" ->
                IF current_step # None /\ current_step[1].type = "explain"
                THEN "Great! Let's continue learning about " \o concept \o "."
                ELSE IF current_step # None /\ current_step[1].type \in {"check", "practice"}
                THEN "Let me ask you a question about " \o concept \o " to check your understanding."
                ELSE "Let's continue with our lesson!"
          [] intent = "confusion" ->
                "I understand this can be tricky. Let me explain " \o concept \o " in a different way."
          [] intent = "question" -> "That's a great question! Let me help clarify."
          [] OTHER -> "Let's keep going with our lesson. What would you like to learn about next?"

\* ---------------------------------------------------------------------
\* Turn summary and session summary (backend/agents/orchestrator.py)
\* ---------------------------------------------------------------------

\* Python "sub in str"
Contains(str, sub) ==
    LET F(v) == \E i \in 1..(Len(v) - Len(sub) + 1) : SubSeq(v, i, i + Len(sub) - 1) = sub
    IN  (CHOOSE r \in {F(x) : x \in {str}} : TRUE)

RECURSIVE Replace(_, _, _)
\* str.replace for a one-character pattern
Replace(str, old, new) ==
    LET F(v) == IF Len(v) = 0 THEN ""
                ELSE IF Len(v) = 1 THEN (IF v = old THEN new ELSE v)
                ELSE Replace(SubSeq(v, 1, Len(v) \div 2), old, new)
                     \o Replace(SubSeq(v, (Len(v) \div 2) + 1, Len(v)), old, new)
    IN  (CHOOSE r \in {F(x) : x \in {str}} : TRUE)

\* "{score:.0%}" for the modelled scores
Percent(score) == ToString((score[1] * 100) \div score[2]) \o "%"

\* Membership test of a Python list
InSeq(x, seq) == \E i \in 1..Len(seq) : seq[i] = x

RECURSIVE AppendNew(_, _)
\* append each element of xs that is not yet in seq
AppendNew(seq, xs) ==
    LET F(v, w) == IF w = <<>> THEN v
                   ELSE AppendNew(IF InSeq(Head(w), v) THEN v ELSE Append(v, Head(w)),
                                  Tail(w))
    IN  (CHOOSE r \in {F(x, y) : x \in {seq}, y \in {xs}} : TRUE)

\* the agent_summary_parts of _generate_turn_summary
agent_summary_parts(outs) ==
    LET ev == Get(outs, "evaluator")
        ex == Get(outs, "explainer")
        as == Get(outs, "assessor")
    IN  (IF isinstance(ev, "EvaluatorOutput")
         THEN IF ev[1].is_correct
              THEN <<"correct answer (score: " \o Percent(ev[1].score) \o ")">>
              ELSE <<"incorrect answer, misconception: " \o
                     (IF ev[1].misconceptions # <<>> THEN ev[1].misconceptions[1] ELSE "error")>>
         ELSE <<>>)
        \o
        (IF isinstance(ex, "ExplainerOutput") /\ ex[1].examples # <<>>
         THEN <<"explained with examples: " \o ex[1].examples[1]>>
         ELSE <<>>)
        \o
        (IF isinstance(as, "AssessorOutput") THEN <<"asked a check question">> ELSE <<>>)
        \o
        (IF "topic_steering" \in DOMAIN outs THEN <<"redirected off-topic message">> ELSE <<>>)

\* a rule-based summary that does not look at the intent
generate_fallback_summary_ignores_intent(intent, concept, agent_parts) ==
    "Discussed " \o (IF concept # None THEN Replace(concept[1], "_", " ") ELSE "the topic")

_generate_fallback_summary(intent, concept, agent_parts) ==
    LET concept_str == IF concept # None THEN Replace(concept[1], "_", " ") ELSE "the topic"
    IN  CASE intent = "answer" ->
                IF \E i \in 1..Len(agent_parts) : Contains(agent_parts[i], "correct")
                THEN "Student answered correctly about " \o concept_str
                ELSE "Student struggled with " \o concept_str \o ", needed clarification"
          [] intent = "question" ->
                "Student asked question about " \o concept_str \o ", tutor explained"
          [] intent = "confusion" ->
                "Student confused about " \o concept_str \o ", tutor clarified"
          [] intent = "off_topic" -> "Student went off-topic, redirected to lesson"
          [] intent = "continuation" -> "Continued lesson on " \o concept_str
          [] OTHER -> "Discussed " \o concept_str

RECURSIVE lstrip(_, _)
\* str.lstrip(chars): the leading characters that are in chars removed
lstrip(str, chars) ==
    LET F(v) == IF Len(v) > 0 /\ SubSeq(v, 1, 1) \in chars
                THEN lstrip(SubSeq(v, 2, Len(v)), chars) ELSE v
    IN  (CHOOSE r \in {F(x) : x \in {str}} : TRUE)

RECURSIVE rstrip(_, _)
\* str.rstrip(chars)
rstrip(str, chars) ==
    LET F(v) == IF Len(v) > 0 /\ SubSeq(v, Len(v), Len(v)) \in chars
                THEN rstrip(SubSeq(v, 1, Len(v) - 1), chars) ELSE v
    IN  (CHOOSE r \in {F(x) : x \in {str}} : TRUE)

\* str.strip(chars)
strip(str, chars) == rstrip(lstrip(str, chars), chars)

\* the clean-up and truncation of the completion's summary text
clean_summary(text) ==
    LET F(v) == IF Len(v) > 100 THEN SubSeq(v, 1, 97) \o "..." ELSE v
    IN  (CHOOSE r \in {F(x) : x \in {strip(strip(strip(text, {" "}), {"\""}), {"'"})}} : TRUE)

\* _generate_turn_summary from the completion call on: the cleaned text of the
\* completion, or the rule-based summary when the call raised
_generate_turn_summary(outcome, intent, concept, outs) ==
    IF outcome.ok THEN clean_summary(outcome.value[1])
    ELSE _generate_fallback_summary(intent, concept, agent_summary_parts(outs))

max_timeline_entries == 30

RECURSIVE RSum(_, _)
RSum(f, S) ==
    LET F(v, w) == IF w = {} THEN Zero
                   ELSE LET c == CHOOSE x \in w : TRUE IN RAdd(v[c], RSum(v, w \ {c}))
    IN  (CHOOSE r \in {F(x, y) : x \in {f}, y \in {S}} : TRUE)

\* _update_progress_trend with the "correct" branch taken whatever the score
update_progress_trend_any_score(s, outs) ==
    LET ev == Get(outs, "evaluator")
        F(v) ==
            LET mastery_values == v.mastery_estimates
                n == Cardinality(DOMAIN mastery_values)
                G(avg_mastery) ==
                    IF ev[1].is_correct
                    THEN [v EXCEPT !.session_summary.progress_trend =
                             IF RLeq(<<3, 5>>, avg_mastery) THEN "improving" ELSE "steady"]
                    ELSE [v EXCEPT !.session_summary.progress_trend =
                             IF RLt(avg_mastery, <<2, 5>>) THEN "struggling" ELSE "steady"]
            IN  IF n = 0 THEN v
                ELSE (CHOOSE r \in {G(x) : x \in {RMul(RSum(mastery_values, DOMAIN mastery_values), <<1, n>>)}} : TRUE)
    IN  IF isinstance(ev, "EvaluatorOutput") THEN (CHOOSE r \in {F(x) : x \in {s}} : TRUE) ELSE s

_update_progress_trend(s, outs) ==
    LET ev == Get(outs, "evaluator")
        F(v) ==
            LET mastery_values == v.mastery_estimates
                n == Cardinality(DOMAIN mastery_values)
                G(avg_mastery) ==
                    IF ev[1].is_correct /\ RLeq(<<4, 5>>, ev[1].score)
                    THEN [v EXCEPT !.session_summary.progress_trend =
                             IF RLeq(<<3, 5>>, avg_mastery) THEN "improving" ELSE "steady"]
                    ELSE IF ~ev[1].is_correct
                    THEN [v EXCEPT !.session_summary.progress_trend =
                             IF RLt(avg_mastery, <<2, 5>>) THEN "struggling" ELSE "steady"]
                    ELSE v
            IN  IF n = 0 THEN v
                ELSE (CHOOSE r \in {G(x) : x \in {RMul(RSum(mastery_values, DOMAIN mastery_values), <<1, n>>)}} : TRUE)
    IN  IF isinstance(ev, "EvaluatorOutput") THEN (CHOOSE r \in {F(x) : x \in {s}} : TRUE) ELSE s

\* the timeline entry appended without trimming the list
summary_timeline_untrimmed(s, turn_summary) ==
    [s EXCEPT !.session_summary.turn_timeline =
        Append(@, "Turn " \o ToString(s.turn_count) \o ": " \o turn_summary)]

\* _update_session_summary, the timeline entry
summary_timeline(s, turn_summary) ==
    LET F(v) == LET turn_entry == "Turn " \o ToString(v.turn_count) \o ": " \o turn_summary
                    tl == Append(v.session_summary.turn_timeline, turn_entry)
                IN  [v EXCEPT !.session_summary.turn_timeline =
                        IF Len(tl) > max_timeline_entries
                        THEN SubSeq(tl, Len(tl) - max_timeline_entries + 1, Len(tl))
                        ELSE tl]
    IN  (CHOOSE r \in {F(x) : x \in {s}} : TRUE)

\* _update_session_summary, examples and analogies of the explainer
summary_examples(s, ex) ==
    IF isinstance(ex, "ExplainerOutput")
    THEN [s EXCEPT !.session_summary.examples_used = AppendNew(@, ex[1].examples),
                   !.session_summary.analogies_used = AppendNew(@, ex[1].analogies)]
    ELSE s

\* _update_session_summary, stuck points from the evaluator
summary_stuck_points(s, ev) ==
    LET F(v) == [v EXCEPT !.session_summary.stuck_points =
                    AppendNew(@, << step_concept(v) \o ": " \o
                        (IF ev[1].misconceptions # <<>>
                         THEN ev[1].misconceptions[1] ELSE "difficulty") >>)]
    IN  IF isinstance(ev, "EvaluatorOutput") /\ ~ev[1].is_correct /\ ev[1].feedback # ""
        THEN (CHOOSE r \in {F(x) : x \in {s}} : TRUE) ELSE s

\* _update_session_summary, concepts taught
summary_concepts_taught(s, outs) ==
    LET F(v) == IF current_step_data(v) # None
                THEN [v EXCEPT !.session_summary.concepts_taught =
                         AppendNew(@, <<current_step_data(v)[1].concept>>)]
                ELSE v
    IN  IF "explainer" \in DOMAIN outs THEN (CHOOSE r \in {F(x) : x \in {s}} : TRUE) ELSE s

_update_session_summary(s, turn_summary, outs) ==
    _update_progress_trend(
        summary_concepts_taught(
            summary_stuck_points(
                summary_examples(
                    summary_timeline(s, turn_summary),
                    Get(outs, "explainer")),
                Get(outs, "evaluator")),
            outs),
        outs)

\* ---------------------------------------------------------------------
\* State
\* ---------------------------------------------------------------------

VARIABLES
    sessions,         \* InMemorySessionManager._sessions: session id -> session object
    heap,             \* the SessionState objects, by reference
    pc,               \* where the in-flight process_turn is suspended ("idle": none in flight)
    cur,              \* reference of the session passed to process_turn
    student_message,  \* the message passed to process_turn
    turn_id,          \* turn id computed at turn start
    safety_result,    \* the SafetyOutput returned by _check_safety, or None
    decision,         \* the decision in use, or None
    names,            \* keys of the enriched-contexts dict, in insertion order
    settled,          \* specialist name -> result (None when it raised)
    response,         \* composed response, or None
    state_changed,    \* value returned by _update_state
    result,           \* TurnResult returned by the last process_turn, or None
    terminal,         \* how the last turn ended: "Blocked", "Persisted", "Failed" ("none" in flight)
    pre,              \* the session as it was when the turn started
    trace,            \* components invoked by the turn, in order
    classified,       \* the intent string returned by the fallback classifier, or None
    failures          \* calls of the turn that raised and were caught where they
                      \* were made (specialist name or "summary") -> exception class

\* the WebSocket endpoint and the attributes of the one orchestrator it shares
VARIABLES
    ws_pc,                  \* connection -> where websocket_endpoint is suspended
    ws_session,             \* connection -> reference of the session it got, or None
    ws_message,             \* connection -> message of its turn in flight, or None
    safety_last_prompt,     \* self.agents["safety"]._last_prompt
    _last_decision_prompt,  \* TeacherOrchestrator._last_decision_prompt
    _last_compose_prompt,   \* TeacherOrchestrator._last_compose_prompt
    agent_logs,             \* the entries written by _log_agent_event
    ws_turns                \* process_turn calls started by the endpoint

\* InMemorySessionManager under threads
VARIABLES
    _sessions,        \* keys of InMemorySessionManager._sessions
    _lock,            \* the thread holding InMemorySessionManager._lock, or None
    updated_at,       \* session id of a created session object -> its updated_at
    now,              \* datetime.utcnow()
    thread_op,        \* thread -> the store call it is in
    reclaimed,        \* ids removed from the map because they had expired
    lost,             \* ids removed from the map after a save that the removing
                      \* call had not seen
    returned,         \* thread -> what its last finished store call returned
    store_ops         \* store calls started

\* the turn timeline of one session over many turns
VARIABLES
    tl_session,       \* the session object
    tl_entries,       \* every entry appended to its timeline since creation
    tl_skipped        \* turns of it that ended Blocked or Failed

\* one call of a function of the orchestrator on given arguments
VARIABLES
    fn_args,          \* the arguments of the call, or None before any call
    fn_result         \* what the call returned, or None

\* one LLMService._execute_with_retry_async call
VARIABLES
    rt_pc,            \* where the call is: "idle", "calling", "sleeping",
                      \* "returned", "service_error", "raised"
    rt_service,       \* max_retries and initial_retry_delay of the LLMService
    attempt,          \* the loop variable of "for attempt in range(max_retries)"
    delay,            \* the local variable delay
    last_error,       \* the local variable last_error, or None
    rt_errors,        \* what api_call_fn raised, attempt by attempt
    rt_slept,         \* the durations passed to asyncio.sleep, in order
    rt_reported       \* attempts field of the LLMServiceError raised, or None

\* the evaluation pipeline of the dashboard
VARIABLES
    _eval_state,      \* the status and run_id entries of the _eval_state dict
    _eval_lock,       \* who holds _eval_lock, or None
    eval_request,     \* request -> where its start/retry handler is
    eval_thread       \* the threads started so far, in order: where each is

pipelineVars == <<sessions, heap, pc, cur, student_message, turn_id, safety_result,
                  decision, names, settled, response, state_changed, result, terminal,
                  pre, trace, classified, failures>>

serverVars == <<ws_pc, ws_session, ws_message, safety_last_prompt,
                _last_decision_prompt, _last_compose_prompt, agent_logs, ws_turns>>

storeVars == <<_sessions, _lock, updated_at, now, thread_op, reclaimed, lost,
               returned, store_ops>>

timelineVars == <<tl_session, tl_entries, tl_skipped>>

fnVars == <<fn_args, fn_result>>

retryVars == <<rt_pc, rt_service, attempt, delay, last_error, rt_errors, rt_slept,
               rt_reported>>

evalVars == <<_eval_state, _eval_lock, eval_request, eval_thread>>

vars == <<sessions, heap, pc, cur, student_message, turn_id, safety_result, decision,
          names, settled, response, state_changed, result, terminal, pre, trace,
          classified, failures, serverVars, storeVars, timelineVars, fnVars, retryVars,
          evalVars>>

\* the open WebSocket connections
Connections == {"c1", "c2"}

\* the threads calling the session store
Threads == {"t1", "t2"}

\* a thread that is in no store call
NoCall == [name |-> "none", arg |-> "", at |-> "idle", present |-> FALSE,
           found |-> {}, age |-> 0, saved_since |-> {}]

\* a thread for which no store call has returned yet
NoReturn == [name |-> "none", arg |-> "", value |-> "none", age |-> 0]

\* the HTTP requests to the evaluation endpoints
Requests == {"r1", "r2"}

\* a request whose handler has not been entered
NoRequest == [kind |-> "none", at |-> "idle", saw |-> "none", answer |-> 0,
              run_id |-> ""]

\* the empty dict
EmptyDict == [n \in {} |-> None]

Init ==
    /\ sessions = EmptyDict
    /\ heap = EmptyDict
    /\ pc = "idle"
    /\ cur = None
    /\ student_message = None
    /\ turn_id = None
    /\ safety_result = None
    /\ decision = None
    /\ names = <<>>
    /\ settled = EmptyDict
    /\ response = None
    /\ state_changed = FALSE
    /\ result = None
    /\ terminal = "none"
    /\ pre = None
    /\ trace = <<>>
    /\ classified = None
    /\ failures = EmptyDict
    /\ ws_pc = [c \in Connections |-> "closed"]
    /\ ws_session = [c \in Connections |-> None]
    /\ ws_message = [c \in Connections |-> None]
    /\ safety_last_prompt = None
    /\ _last_decision_prompt = None
    /\ _last_compose_prompt = None
    /\ agent_logs = {}
    /\ ws_turns = 0
    /\ _sessions = {}
    /\ _lock = None
    /\ updated_at = EmptyDict
    /\ now = 0
    /\ thread_op = [t \in Threads |-> NoCall]
    /\ reclaimed = {}
    /\ lost = {}
    /\ returned = [t \in Threads |-> NoReturn]
    /\ store_ops = 0
    /\ tl_session = create_session("sess_1")
    /\ tl_entries = <<>>
    /\ tl_skipped = 0
    /\ fn_args = None
    /\ fn_result = None
    /\ rt_pc = "idle"
    /\ rt_service = None
    /\ attempt = 0
    /\ delay = 0
    /\ last_error = None
    /\ rt_errors = <<>>
    /\ rt_slept = <<>>
    /\ rt_reported = None
    /\ _eval_state = [status |-> "idle", run_id |-> None]
    /\ _eval_lock = None
    /\ eval_request = [r \in Requests |-> NoRequest]
    /\ eval_thread = <<>>

\* the session object of the in-flight turn
session == heap[cur[1]]

\* dict assignment d[k] = v
Put(d, k, v) == [x \in (DOMAIN d) \cup {k} |-> IF x = k THEN v ELSE d[x]]

\* InMemorySessionManager.save: the map entry refers to the object passed in
save(ref) == Put(sessions, heap[ref].session_id, ref)

\* InMemorySessionManager.get: the session stored under the id, or None
get(session_id) ==
    IF session_id \in DOMAIN sessions THEN Some(heap[sessions[session_id]]) ELSE None

\* ---------------------------------------------------------------------
\* Actions
\* ---------------------------------------------------------------------

\* InMemorySessionManager.create_session (POST /api/sessions)
CreateSession(sid) ==
    /\ sid \notin DOMAIN sessions
    /\ sid \notin DOMAIN heap
    /\ heap' = Put(heap, sid, create_session(sid))
    /\ sessions' = Put(sessions, sid, sid)
    /\ UNCHANGED <<pc, cur, student_message, turn_id, safety_result, decision, names,
                   settled, response, state_changed, result, terminal, pre, trace,
                   classified, failures>>
    /\ UNCHANGED <<serverVars, storeVars, timelineVars,
                   fnVars, retryVars, evalVars>>

\* process_turn entered with the decision call issued first, without a safety check
StartTurnDecisionFirst(sid, msg) ==
    /\ pc = "idle"
    /\ sid \in DOMAIN sessions
    /\ heap[sessions[sid]].turn_count < MaxTurns
    /\ LET ref == sessions[sid]
           s == heap[ref]
       IN  /\ cur' = Some(ref)
           /\ pre' = Some(s)
           /\ turn_id' = Some(get_current_turn_id(s))
           /\ heap' = [heap EXCEPT ![ref] =
                          add_message(increment_turn(s), create_student_message(msg))]
    /\ student_message' = Some(msg)
    /\ safety_result' = None
    /\ decision' = None
    /\ names' = <<>>
    /\ settled' = EmptyDict
    /\ response' = None
    /\ state_changed' = FALSE
    /\ result' = None
    /\ terminal' = "none"
    /\ trace' = <<"decision">>
    /\ classified' = None
    /\ failures' = EmptyDict
    /\ pc' = "decision"
    /\ UNCHANGED sessions
    /\ UNCHANGED <<serverVars, storeVars, timelineVars,
                   fnVars, retryVars, evalVars>>

\* process_turn from its entry to the await of the safety check
StartTurn(sid, msg) ==
    /\ pc = "idle"
    /\ sid \in DOMAIN sessions
    /\ heap[sessions[sid]].turn_count < MaxTurns
    /\ LET ref == sessions[sid]
           s == heap[ref]
       IN  /\ cur' = Some(ref)
           /\ pre' = Some(s)
           /\ turn_id' = Some(get_current_turn_id(s))
           /\ heap' = [heap EXCEPT ![ref] =
                          add_message(increment_turn(s), create_student_message(msg))]
    /\ student_message' = Some(msg)
    /\ safety_result' = None
    /\ decision' = None
    /\ names' = <<>>
    /\ settled' = EmptyDict
    /\ response' = None
    /\ state_changed' = FALSE
    /\ result' = None
    /\ terminal' = "none"
    /\ trace' = <<"safety">>
    /\ classified' = None
    /\ failures' = EmptyDict
    /\ pc' = "safety"
    /\ UNCHANGED sessions
    /\ UNCHANGED <<serverVars, storeVars, timelineVars,
                   fnVars, retryVars, evalVars>>

\* the outer except branch: the turn ends Failed, nothing is saved
\* (the caller says what becomes of the local variable classified)
TurnFails ==
    /\ pc' = "idle"
    /\ terminal' = "Failed"
    /\ result' = Some(turn_failed_result)
    /\ UNCHANGED <<sessions, heap, cur, student_message, turn_id, safety_result,
                   decision, names, settled, response, state_changed, pre, trace,
                   failures>>

\* from the settled specialists to the next await: _update_state, then
\* _compose_response up to its completion call (or its fallback text and on to
\* the await of the turn summary)
AfterSpecialists(d, nms, outs, tr) ==
    \E upd \in {_update_state(session, d.intent, outs)} :
        LET s1 == upd.session IN
        /\ state_changed' = upd.changed
        /\ settled' = outs
        /\ IF _format_specialist_outputs(nms, outs) = <<>>
           THEN LET text == _generate_fallback_response(s1, d.intent)
                IN  /\ response' = Some(text)
                    /\ heap' = [heap EXCEPT ![cur[1]] =
                                   add_message(s1, create_teacher_message(text))]
                    /\ trace' = tr \o <<"update_state", "compose", "summary">>
                    /\ pc' = "summary"
           ELSE /\ response' = None
                /\ heap' = [heap EXCEPT ![cur[1]] = s1]
                /\ trace' = tr \o <<"update_state", "compose">>
                /\ pc' = "compose"

RECURSIVE Dedup(_)
\* keys of a dict filled in list order
Dedup(seq) ==
    LET F(v) == IF v = <<>> THEN <<>>
                ELSE LET G(r) == IF InSeq(v[Len(v)], r) THEN r ELSE Append(r, v[Len(v)])
                     IN  (CHOOSE r \in {G(x) : x \in {Dedup(SubSeq(v, 1, Len(v) - 1))}} : TRUE)
    IN  (CHOOSE r \in {F(x) : x \in {seq}} : TRUE)

\* get_requirements_for_specialist: the requirements the decision carries for a
\* specialist, or None
get_requirements_for_specialist(d, specialist_name) ==
    CASE specialist_name = "explainer"      -> d.explainer_requirements
      [] specialist_name = "evaluator"      -> d.evaluator_requirements
      [] specialist_name = "assessor"       -> d.assessor_requirements
      [] specialist_name = "topic_steering" -> d.topic_steering_requirements
      [] specialist_name = "plan_adapter"   -> d.plan_adapter_requirements
      [] OTHER                              -> None

\* the keys _build_agent_context puts into additional_context
BaseContextKeys ==
    {"topic_name", "step_type", "content_hint", "preferred_examples",
     "mastery_estimates", "misconceptions", "common_misconceptions",
     "awaiting_response", "last_question"}

\* the enriched contexts _execute_specialists_with_requirements builds before it
\* runs any specialist: specialist name -> keys of the additional_context passed
\* to it (the executors pass them on as they are)
enriched_contexts(d) ==
    LET nms == Dedup(d.specialists_to_call)
    IN  [n \in {nms[i] : i \in 1..Len(nms)} |->
            BaseContextKeys \cup
            (IF get_requirements_for_specialist(d, n) # None
             THEN {n \o "_requirements"} ELSE {})]

\* the additional_context dict _build_agent_context fills
base_additional_context == [k \in BaseContextKeys |-> "base:" \o k]

\* AgentContext.model_copy(deep=False): the copy shares additional_context
model_copy_shallow(dicts, ctx) == [dicts |-> dicts, ctx |-> ctx]

\* AgentContext.model_copy(deep=True) on a heap of dict objects: the copy gets
\* a dict object of its own with the same items
model_copy(dicts, ctx) ==
    LET fresh == Cardinality(DOMAIN dicts) + 1
    IN  [dicts |-> Put(dicts, fresh, dicts[ctx.additional_context]),
         ctx   |-> [additional_context |-> fresh]]

RECURSIVE enrich_loop(_, _, _, _)
\* the loop of _execute_specialists_with_requirements over the specialists
\* still to do: [dicts, enriched_contexts]
enrich_loop(d, todo, dicts, done) ==
    LET F(w, hp, dn) ==
            IF w = <<>> THEN [dicts |-> hp, enriched_contexts |-> dn]
            ELSE LET specialist_name == Head(w)
                     copy == model_copy(hp, [additional_context |-> 1])
                     req == get_requirements_for_specialist(d, specialist_name)
                     own == copy.ctx.additional_context
                     hp2 == IF req # None
                            THEN [copy.dicts EXCEPT ![own] =
                                     Put(@, specialist_name \o "_requirements", req[1])]
                            ELSE copy.dicts
                 IN  enrich_loop(d, Tail(w), hp2, Put(dn, specialist_name, copy.ctx))
    IN  (CHOOSE r \in {F(x, y, z) : x \in {todo}, y \in {dicts}, z \in {done}} : TRUE)

\* the dict objects and the enriched contexts after the loop; dict object 1 is
\* the additional_context of the base context
context_objects(d) ==
    enrich_loop(d, d.specialists_to_call,
                [i \in {1} |-> base_additional_context], EmptyDict)

\* a dispatcher that launches every specialist at once whatever the strategy
BeginDispatchAllAtOnce(d, tr) ==
    LET nms == Dedup(d.specialists_to_call)
    IN  /\ decision' = Some(d)
        /\ names' = nms
        /\ IF nms = <<>>
           THEN AfterSpecialists(d, nms, EmptyDict, tr)
           ELSE /\ settled' = EmptyDict
                /\ trace' = tr \o nms
                /\ pc' = "specialists"
                /\ UNCHANGED <<heap, response, state_changed>>

\* _execute_specialists_with_requirements up to its first await
BeginDispatch(d, tr) ==
    LET nms == Dedup(d.specialists_to_call)
    IN  /\ decision' = Some(d)
        /\ names' = nms
        /\ IF nms = <<>>
           THEN AfterSpecialists(d, nms, EmptyDict, tr)
           ELSE /\ settled' = EmptyDict
                /\ trace' = tr \o (IF d.execution_strategy = "parallel"
                                   THEN nms ELSE <<nms[1]>>)
                /\ pc' = "specialists"
                /\ UNCHANGED <<heap, response, state_changed>>

\* the safety specialist raised or timed out, and the turn went on as if the message were safe
SafetyFailsOpen ==
    /\ pc = "safety"
    /\ pc' = "decision"
    /\ trace' = Append(trace, "decision")
    /\ UNCHANGED <<sessions, heap, cur, student_message, turn_id, safety_result,
                   decision, names, settled, response, state_changed, result,
                   terminal, pre, classified, failures>>
    /\ UNCHANGED <<serverVars, storeVars, timelineVars,
                   fnVars, retryVars, evalVars>>

\* the safety specialist raised (AgentExecutionError) or timed out (AgentTimeoutError)
SafetyFails ==
    /\ pc = "safety"
    /\ TurnFails
    /\ UNCHANGED classified
    /\ UNCHANGED <<serverVars, storeVars, timelineVars,
                   fnVars, retryVars, evalVars>>

\* the safety specialist returned a validated SafetyOutput
SafetyReturns(out) ==
    /\ pc = "safety"
    /\ safety_result' = Some(out)
    /\ IF ~out.is_safe
       THEN /\ heap' = [heap EXCEPT ![cur[1]] = _handle_unsafe_message(session, out)]
            /\ sessions' = save(cur[1])
            /\ result' = Some(TurnResult(unsafe_response(out), "unsafe", <<"safety">>, TRUE))
            /\ terminal' = "Blocked"
            /\ trace' = Append(trace, "save")
            /\ pc' = "idle"
       ELSE /\ pc' = "decision"
            /\ trace' = Append(trace, "decision")
            /\ UNCHANGED <<sessions, heap, result, terminal>>
    /\ UNCHANGED <<cur, student_message, turn_id, decision, names, settled,
                   response, state_changed, pre, classified, failures>>
    /\ UNCHANGED <<serverVars, storeVars, timelineVars,
                   fnVars, retryVars, evalVars>>

\* the primary decision call returned and validated
DecisionReturns(d) ==
    /\ pc = "decision"
    /\ BeginDispatch(d, trace)
    /\ UNCHANGED <<sessions, cur, student_message, turn_id, safety_result, result,
                   terminal, pre, classified, failures>>
    /\ UNCHANGED <<serverVars, storeVars, timelineVars,
                   fnVars, retryVars, evalVars>>

\* the primary decision call raised: the fallback classifier is called
DecisionFails ==
    /\ pc = "decision"
    /\ pc' = "classify"
    /\ trace' = Append(trace, "classify")
    /\ UNCHANGED <<sessions, heap, cur, student_message, turn_id, safety_result,
                   decision, names, settled, response, state_changed, result,
                   terminal, pre, classified, failures>>
    /\ UNCHANGED <<serverVars, storeVars, timelineVars,
                   fnVars, retryVars, evalVars>>

\* the fallback classifier returned an intent string
ClassifyReturns(intent) ==
    /\ pc = "classify"
    /\ classified' = Some(intent)
    /\ IF intent \in Intents
       THEN /\ BeginDispatch(_create_fallback_decision(intent), trace)
            /\ UNCHANGED <<sessions, cur, student_message, turn_id, safety_result,
                           result, terminal, pre, failures>>
       ELSE \* OrchestratorDecision rejects an intent outside its Literal
            TurnFails
    /\ UNCHANGED <<serverVars, storeVars, timelineVars,
                   fnVars, retryVars, evalVars>>

\* the fallback classifier raised
ClassifyFails ==
    /\ pc = "classify"
    /\ TurnFails
    /\ UNCHANGED classified
    /\ UNCHANGED <<serverVars, storeVars, timelineVars,
                   fnVars, retryVars, evalVars>>

\* a dispatcher out of which an AgentTimeoutError escapes to process_turn
SpecialistSettlesTimeoutEscapes(n, outcome) ==
    /\ pc = "specialists"
    /\ InSeq(n, names)
    /\ n \notin DOMAIN settled
    /\ decision[1].execution_strategy # "parallel"
          => n = names[Cardinality(DOMAIN settled) + 1]
    /\ outcome \in ExecuteOutcomes(n)
    /\ IF ~outcome.ok /\ outcome.error = "AgentTimeoutError"
       THEN /\ pc' = "idle"
            /\ terminal' = "Failed"
            /\ result' = Some(turn_failed_result)
            /\ failures' = Put(failures, n, outcome.error)
            /\ UNCHANGED <<sessions, heap, cur, student_message, turn_id, safety_result,
                           decision, names, settled, response, state_changed, pre,
                           trace, classified>>
       ELSE /\ failures' = IF outcome.ok THEN failures
                                         ELSE Put(failures, n, outcome.error)
            /\ LET outs == Put(settled, n, dispatch_result(outcome))
               IN  IF DOMAIN outs = {names[i] : i \in 1..Len(names)}
                   THEN AfterSpecialists(decision[1], names, outs, trace)
                   ELSE /\ settled' = outs
                        /\ trace' = IF decision[1].execution_strategy = "parallel"
                                    THEN trace
                                    ELSE Append(trace, names[Cardinality(DOMAIN outs) + 1])
                        /\ UNCHANGED <<heap, pc, response, state_changed>>
            /\ UNCHANGED <<sessions, cur, student_message, turn_id, safety_result,
                           decision, names, result, terminal, pre, classified>>
    /\ UNCHANGED <<serverVars, storeVars, timelineVars,
                   fnVars, retryVars, evalVars>>

\* a dispatched specialist settled with the outcome of BaseAgent.execute
SpecialistSettles(n, outcome) ==
    /\ pc = "specialists"
    /\ InSeq(n, names)
    /\ n \notin DOMAIN settled
    /\ decision[1].execution_strategy # "parallel"
          => n = names[Cardinality(DOMAIN settled) + 1]
    /\ outcome \in ExecuteOutcomes(n)
    /\ failures' = IF outcome.ok THEN failures ELSE Put(failures, n, outcome.error)
    /\ LET outs == Put(settled, n, dispatch_result(outcome))
       IN  IF DOMAIN outs = {names[i] : i \in 1..Len(names)}
           THEN AfterSpecialists(decision[1], names, outs, trace)
           ELSE /\ settled' = outs
                /\ trace' = IF decision[1].execution_strategy = "parallel"
                            THEN trace
                            ELSE Append(trace, names[Cardinality(DOMAIN outs) + 1])
                /\ UNCHANGED <<heap, pc, response, state_changed>>
    /\ UNCHANGED <<sessions, cur, student_message, turn_id, safety_result, decision,
                   names, result, terminal, pre, classified>>
    /\ UNCHANGED <<serverVars, storeVars, timelineVars,
                   fnVars, retryVars, evalVars>>

\* the composition call returned: text is its output after strip()
ComposeReturns(text) ==
    /\ pc = "compose"
    /\ response' = Some(text)
    /\ heap' = [heap EXCEPT ![cur[1]] = add_message(session, create_teacher_message(text))]
    /\ trace' = Append(trace, "summary")
    /\ pc' = "summary"
    /\ UNCHANGED <<sessions, cur, student_message, turn_id, safety_result, decision,
                   names, settled, state_changed, result, terminal, pre, classified,
                   failures>>
    /\ UNCHANGED <<serverVars, storeVars, timelineVars,
                   fnVars, retryVars, evalVars>>

\* the composition call raised
ComposeFails ==
    /\ pc = "compose"
    /\ TurnFails
    /\ UNCHANGED classified
    /\ UNCHANGED <<serverVars, storeVars, timelineVars,
                   fnVars, retryVars, evalVars>>

\* process_turn returning without saving the session
FinishTurnWithoutSave(turn_summary) ==
    /\ heap' = [heap EXCEPT ![cur[1]] =
                   _update_session_summary(session, turn_summary, settled)]
    /\ result' = Some(TurnResult(response[1], decision[1].intent, names, state_changed))
    /\ terminal' = "Persisted"
    /\ pc' = "idle"
    /\ UNCHANGED <<sessions, cur, student_message, turn_id, safety_result, decision,
                   names, settled, response, state_changed, pre, trace, classified>>

\* from the turn summary to the return of process_turn
FinishTurn(turn_summary) ==
    /\ heap' = [heap EXCEPT ![cur[1]] =
                   _update_session_summary(session, turn_summary, settled)]
    /\ sessions' = save(cur[1])
    /\ result' = Some(TurnResult(response[1], decision[1].intent, names, state_changed))
    /\ terminal' = "Persisted"
    /\ trace' = Append(trace, "save")
    /\ pc' = "idle"
    /\ UNCHANGED <<cur, student_message, turn_id, safety_result, decision, names,
                   settled, response, state_changed, pre, classified>>

\* the turn-summary call returned
SummaryReturns(text) ==
    /\ pc = "summary"
    /\ FinishTurn(clean_summary(text))
    /\ UNCHANGED failures
    /\ UNCHANGED <<serverVars, storeVars, timelineVars,
                   fnVars, retryVars, evalVars>>

\* the turn-summary call raised: the exception is caught in
\* _generate_turn_summary, which returns the rule-based summary
SummaryFails ==
    /\ pc = "summary"
    /\ failures' = Put(failures, "summary", "Exception")
    /\ FinishTurn(_generate_fallback_summary(decision[1].intent,
                      Some(step_concept(pre[1])), agent_summary_parts(settled)))
    /\ UNCHANGED <<serverVars, storeVars, timelineVars,
                   fnVars, retryVars, evalVars>>

Next ==
    \/ \E sid \in SessionIds : CreateSession(sid)
    \/ \E sid \in SessionIds, msg \in StudentMessages : StartTurn(sid, msg)
    \/ \E out \in SafetyOutputs : SafetyReturns(out)
    \/ SafetyFails
    \/ \E d \in PrimaryDecisions : DecisionReturns(d)
    \/ DecisionFails
    \/ \E intent \in ClassifierIntents : ClassifyReturns(intent)
    \/ ClassifyFails
    \/ \E n \in SpecialistNames :
           \E outcome \in ExecuteOutcomes(n) : SpecialistSettles(n, outcome)
    \/ \E text \in ComposeTexts : ComposeReturns(text)
    \/ ComposeFails
    \/ \E text \in SummaryTexts : SummaryReturns(text)
    \/ SummaryFails

Spec == Init /\ [][Next]_vars

TypeOK ==
    /\ pc \in {"idle", "safety", "decision", "classify", "specialists", "compose", "summary"}
    /\ terminal \in {"none", "Blocked", "Persisted", "Failed"}


\* ---------------------------------------------------------------------
\* The turn timeline over the life of one session
\* (TeacherOrchestrator._update_session_summary over many turns)
\* ---------------------------------------------------------------------

MaxTimelineTurns == 32

MaxSkippedTurns == 2

MaxAnsweredTurns == 4

\* the summary of a turn in which the student answered
AnsweredSummary == "Assessed 1/4 vs 1/2 comparison, student answered correctly"

\* what process_turn does to the session before the safety check
timeline_turn_start(s) ==
    add_message(increment_turn(s), create_student_message("I think it is 1/2"))

\* a turn that ended Persisted: teacher message, then _update_session_summary
\* with the summary of the turn
TimelinePersistedTurn(text) ==
    /\ tl_session.turn_count < MaxTimelineTurns
    /\ \E s1 \in {add_message(timeline_turn_start(tl_session),
                             create_teacher_message("Let's continue with our lesson!"))} :
           tl_session' = _update_session_summary(s1, clean_summary(text), EmptyDict)
    /\ tl_entries' = Append(tl_entries,
                            "Turn " \o ToString(tl_session.turn_count + 1) \o ": " \o text)
    /\ UNCHANGED <<tl_skipped, pipelineVars, serverVars, storeVars,
                   fnVars, retryVars, evalVars>>

\* a turn that ended Persisted with an evaluator output: _update_state, teacher
\* message, then _update_session_summary
TimelineAnsweredTurn(ev) ==
    /\ tl_session.turn_count < MaxAnsweredTurns
    /\ \E outs \in {[n \in {"evaluator"} |-> Some(ev)]} :
       \E s1 \in {add_message(
                      _update_state(timeline_turn_start(tl_session), "answer", outs).session,
                      create_teacher_message("Let's continue with our lesson!"))} :
           tl_session' = _update_session_summary(s1, clean_summary(AnsweredSummary), outs)
    /\ tl_entries' = Append(tl_entries,
                            "Turn " \o ToString(tl_session.turn_count + 1) \o ": "
                                \o AnsweredSummary)
    /\ UNCHANGED <<tl_skipped, pipelineVars, serverVars, storeVars,
                   fnVars, retryVars, evalVars>>

\* a turn that ended Blocked: _handle_unsafe_message, no summary
TimelineBlockedTurn(out) ==
    /\ tl_session.turn_count < MaxTimelineTurns
    /\ tl_skipped < MaxSkippedTurns
    /\ ~out.is_safe
    /\ tl_session' = _handle_unsafe_message(timeline_turn_start(tl_session), out)
    /\ tl_skipped' = tl_skipped + 1
    /\ UNCHANGED <<tl_entries, pipelineVars, serverVars, storeVars,
                   fnVars, retryVars, evalVars>>

\* a turn that ended Failed at the safety check
TimelineFailedTurn ==
    /\ tl_session.turn_count < MaxTimelineTurns
    /\ tl_skipped < MaxSkippedTurns
    /\ tl_session' = timeline_turn_start(tl_session)
    /\ tl_skipped' = tl_skipped + 1
    /\ UNCHANGED <<tl_entries, pipelineVars, serverVars, storeVars,
                   fnVars, retryVars, evalVars>>

NextTimeline ==
    \/ \E text \in SummaryTexts : TimelinePersistedTurn(text)
    \/ \E ev \in {e \in EvaluatorOutputs : e.is_correct /\ e.score = One} :
           TimelineAnsweredTurn(ev)
    \/ \E out \in {[is_safe |-> FALSE, violation_type |-> Some("harassment"),
                    guidance |-> None, should_warn |-> TRUE]} : TimelineBlockedTurn(out)
    \/ TimelineFailedTurn

SpecTimeline == Init /\ [][NextTimeline]_vars

\* ---------------------------------------------------------------------
\* The session store under concurrent callers
\* (backend/services/session_manager.py, InMemorySessionManager)
\* ---------------------------------------------------------------------

MaxClock == 2

MaxStoreOps == 4

\* InMemorySessionManager.timeout_seconds, in clock ticks
timeout_seconds == 1

\* the ids create_session can give a new session
StoreIds == {"sess_1", "sess_2"}

\* the store calls that take a session (id)
KeyedCalls == {"create_session", "get", "save", "delete", "exists"}

\* the store calls over the whole map
MapCalls == {"list_sessions", "cleanup_expired", "get_stats"}

\* the calls that look at the map and then change it or answer from what they saw
TwoStepCalls == {"get", "delete", "exists", "list_sessions", "cleanup_expired"}

\* now - session.updated_at
age_of(id) == now - updated_at[id]

\* InMemorySessionManager._is_expired
_is_expired(id) == age_of(id) > timeout_seconds

\* the greatest age among the sessions of a set (0 for none)
max_age(ids) ==
    IF ids = {} THEN 0 ELSE CHOOSE a \in {age_of(i) : i \in ids} :
                                \A i \in ids : age_of(i) <= a

\* a thread enters a store call, up to the point where it asks for the lock:
\* create_session builds the session object, save stamps updated_at
StoreCall(t, name, arg) ==
    /\ thread_op[t].at = "idle"
    /\ store_ops < MaxStoreOps
    /\ \/ name = "create_session" /\ arg \in StoreIds \ DOMAIN updated_at
       \/ name = "save" /\ arg \in DOMAIN updated_at
       \/ name \in {"get", "delete", "exists"} /\ arg \in StoreIds
       \/ name \in MapCalls /\ arg = ""
    /\ updated_at' = IF name \in {"create_session", "save"}
                     THEN Put(updated_at, arg, now) ELSE updated_at
    /\ thread_op' = [thread_op EXCEPT ![t] =
                        [NoCall EXCEPT !.name = name, !.arg = arg, !.at = "waiting"]]
    /\ store_ops' = store_ops + 1
    /\ UNCHANGED <<_sessions, _lock, now, reclaimed, lost, returned>>
    /\ UNCHANGED <<pipelineVars, serverVars, timelineVars,
                   fnVars, retryVars, evalVars>>

\* a thread entering "with self._lock" while the lock is taken or not
StoreAcquireNoWait(t) ==
    /\ thread_op[t].at = "waiting"
    /\ _lock' = Some(t)
    /\ thread_op' = [thread_op EXCEPT ![t].at = "locked"]
    /\ UNCHANGED <<_sessions, updated_at, now, reclaimed, lost, returned, store_ops>>
    /\ UNCHANGED <<pipelineVars, serverVars, timelineVars,
                   fnVars, retryVars, evalVars>>

\* "with self._lock": the thread gets the lock once it is free
StoreAcquire(t) ==
    /\ thread_op[t].at = "waiting"
    /\ _lock = None
    /\ _lock' = Some(t)
    /\ thread_op' = [thread_op EXCEPT ![t].at = "locked"]
    /\ UNCHANGED <<_sessions, updated_at, now, reclaimed, lost, returned, store_ops>>
    /\ UNCHANGED <<pipelineVars, serverVars, timelineVars,
                   fnVars, retryVars, evalVars>>

\* the first half of a call that looks before it changes: get and exists look
\* the session up and test its expiry, delete tests the key,
\* _cleanup_expired_internal collects the expired ids
StoreCheck(t) ==
    LET op == thread_op[t]
        looked == IF op.name \in KeyedCalls THEN {op.arg} \cap _sessions ELSE _sessions
    IN  /\ op.at = "locked"
        /\ op.name \in TwoStepCalls
        /\ thread_op' = [thread_op EXCEPT ![t] =
               [op EXCEPT !.at = "checked",
                          !.present = (looked # {}),
                          !.found = IF op.name = "delete" THEN {}
                                    ELSE {i \in looked : _is_expired(i)},
                          !.age = max_age({i \in looked : ~_is_expired(i)}),
                          !.saved_since = {}]]
        /\ UNCHANGED <<_sessions, _lock, updated_at, now, reclaimed, lost, returned,
                       store_ops>>
        /\ UNCHANGED <<pipelineVars, serverVars, timelineVars,
                   fnVars, retryVars, evalVars>>

\* what a finished call hands back
store_result(op) ==
    CASE op.name = "get" ->
            IF ~op.present THEN "not_found"
            ELSE IF op.found # {} THEN "expired" ELSE "session"
      [] op.name = "exists" ->
            IF op.present /\ op.found = {} THEN "true" ELSE "false"
      [] op.name = "delete" -> IF op.present THEN "true" ELSE "false"
      [] op.name = "list_sessions" -> "keys"
      [] op.name = "create_session" -> "session"
      [] OTHER -> "none"

\* the rest of a call, to the end of its "with" block: the map is written, the
\* lock released and the call returns
StoreApply(t) ==
    LET op == thread_op[t]
        written == IF op.name \in {"create_session", "save"} THEN {op.arg} ELSE {}
        removed == (IF op.name = "delete" /\ op.present THEN {op.arg} ELSE op.found)
                       \cap _sessions
    IN  /\ IF op.name \in TwoStepCalls THEN op.at = "checked" ELSE op.at = "locked"
        /\ _sessions' = (_sessions \ removed) \cup written
        /\ reclaimed' = reclaimed \cup (removed \cap op.found)
        /\ lost' = lost \cup (removed \cap op.saved_since)
        /\ _lock' = None
        /\ returned' = [returned EXCEPT ![t] =
               [name |-> op.name, arg |-> op.arg, value |-> store_result(op),
                age |-> op.age]]
        /\ thread_op' = [u \in Threads |->
               IF u = t THEN NoCall
               ELSE IF thread_op[u].at = "checked"
                    THEN [thread_op[u] EXCEPT !.saved_since = @ \cup written]
                    ELSE thread_op[u]]
        /\ UNCHANGED <<updated_at, now, store_ops>>
        /\ UNCHANGED <<pipelineVars, serverVars, timelineVars,
                   fnVars, retryVars, evalVars>>

\* a turn on a session it holds changes the object (increment_turn, update_mastery,
\* add_misconception, ...): updated_at is stamped without any store call
StoreTouch(id) ==
    /\ id \in DOMAIN updated_at
    /\ updated_at[id] # now
    /\ updated_at' = [updated_at EXCEPT ![id] = now]
    /\ UNCHANGED <<_sessions, _lock, now, thread_op, reclaimed, lost, returned,
                   store_ops>>
    /\ UNCHANGED <<pipelineVars, serverVars, timelineVars,
                   fnVars, retryVars, evalVars>>

\* time passes
StoreTick ==
    /\ now < MaxClock
    /\ now' = now + 1
    /\ UNCHANGED <<_sessions, _lock, updated_at, thread_op, reclaimed, lost, returned,
                   store_ops>>
    /\ UNCHANGED <<pipelineVars, serverVars, timelineVars,
                   fnVars, retryVars, evalVars>>

NextStore ==
    \/ \E t \in Threads, name \in KeyedCalls \cup MapCalls, arg \in StoreIds \cup {""} :
           StoreCall(t, name, arg)
    \/ \E t \in Threads : StoreAcquire(t)
    \/ \E t \in Threads : StoreCheck(t)
    \/ \E t \in Threads : StoreApply(t)
    \/ \E id \in StoreIds : StoreTouch(id)
    \/ StoreTick

SpecStore == Init /\ [][NextStore]_vars

\* ---------------------------------------------------------------------
\* The WebSocket endpoint (backend/main.py, websocket_endpoint) driving the one
\* shared TeacherOrchestrator: each connection runs its own receive loop, and a
\* turn is followed through the awaits around which the orchestrator keeps and
\* logs prompts; what a turn does to its session between the decision and the
\* composition is the subject of the pipeline specification above
\* ---------------------------------------------------------------------

MaxServerTurns == 2

ServerSessionIds == {"sess_1", "sess_2"}

ServerMessages == {"What is a fraction?", "I think it is 1/2"}

\* the variables of one process_turn call that the endpoint's steps leave alone
turnVars == <<pc, cur, student_message, turn_id, safety_result, decision, names,
              settled, response, state_changed, result, terminal, pre, trace,
              classified, failures>>

\* the places inside process_turn where a connection's turn is suspended
TurnPlaces == {"safety", "decision", "compose"}

\* a prompt: the text built from a session and the message of one of its turns
prompt_of(s, turn) ==
    [session_id |-> s.session_id, turn_id |-> turn.turn_id,
     message |-> turn.student_message]

\* _log_agent_event: the entry of one agent call of a turn
agent_log_entry(s, turn, agent_name, prompt) ==
    [session_id |-> s.session_id, turn_id |-> turn.turn_id,
     agent_name |-> agent_name, prompt |-> prompt]

\* websocket_endpoint from accept to the receive loop: the session is fetched
\* once with get_or_raise and kept for the life of the connection
WsConnect(c, sid) ==
    /\ ws_pc[c] = "closed"
    /\ get(sid) # None
    /\ ws_session' = [ws_session EXCEPT ![c] = Some(sessions[sid])]
    /\ ws_pc' = [ws_pc EXCEPT ![c] = "loop"]
    /\ UNCHANGED <<ws_message, safety_last_prompt, _last_decision_prompt,
                   _last_compose_prompt, agent_logs, ws_turns>>
    /\ UNCHANGED <<sessions, heap, turnVars, storeVars, timelineVars,
                   fnVars, retryVars, evalVars>>

\* a chat message arrives: process_turn runs from its entry to the await inside
\* the safety agent's execute, which has stored the prompt it built
WsReceiveChat(c, msg) ==
    /\ ws_pc[c] = "loop"
    /\ ws_turns < MaxServerTurns
    /\ LET ref == ws_session[c][1]
           s == heap[ref]
           turn == [turn_id |-> get_current_turn_id(s), student_message |-> msg]
       IN  /\ heap' = [heap EXCEPT ![ref] =
                          add_message(increment_turn(s), create_student_message(msg))]
           /\ ws_message' = [ws_message EXCEPT ![c] = Some(turn)]
           /\ safety_last_prompt' = Some(prompt_of(s, turn))
    /\ ws_pc' = [ws_pc EXCEPT ![c] = "safety"]
    /\ ws_turns' = ws_turns + 1
    /\ UNCHANGED <<ws_session, _last_decision_prompt, _last_compose_prompt, agent_logs>>
    /\ UNCHANGED <<sessions, turnVars, storeVars, timelineVars,
                   fnVars, retryVars, evalVars>>

\* the safety check returns: its log entry takes the safety agent's last_prompt;
\* an unsafe message ends the turn, a safe one goes on to the await of the
\* decision call, which has stored its prompt in _last_decision_prompt
WsSafetyReturns(c, is_safe) ==
    /\ ws_pc[c] = "safety"
    /\ LET ref == ws_session[c][1]
           s == heap[ref]
           turn == ws_message[c][1]
       IN  /\ agent_logs' = agent_logs \cup
                  {agent_log_entry(s, turn, "safety", safety_last_prompt)}
           /\ IF is_safe
              THEN /\ _last_decision_prompt' = Some(prompt_of(s, turn))
                   /\ ws_pc' = [ws_pc EXCEPT ![c] = "decision"]
                   /\ UNCHANGED <<heap, ws_message>>
              ELSE /\ heap' = [heap EXCEPT ![ref] = add_message(s,
                          create_teacher_message("Let's keep our conversation friendly."))]
                   /\ ws_pc' = [ws_pc EXCEPT ![c] = "loop"]
                   /\ ws_message' = [ws_message EXCEPT ![c] = None]
                   /\ UNCHANGED _last_decision_prompt
    /\ UNCHANGED <<ws_session, safety_last_prompt, _last_compose_prompt, ws_turns>>
    /\ UNCHANGED <<sessions, turnVars, storeVars, timelineVars,
                   fnVars, retryVars, evalVars>>

\* the decision call returns: its log entry takes _last_decision_prompt; the
\* turn goes on to the await of the composition call, which has stored its
\* prompt in _last_compose_prompt
WsDecisionReturns(c) ==
    /\ ws_pc[c] = "decision"
    /\ LET s == heap[ws_session[c][1]]
           turn == ws_message[c][1]
       IN  /\ agent_logs' = agent_logs \cup
                  {agent_log_entry(s, turn, "orchestrator", _last_decision_prompt)}
           /\ _last_compose_prompt' = Some(prompt_of(s, turn))
    /\ ws_pc' = [ws_pc EXCEPT ![c] = "compose"]
    /\ UNCHANGED <<ws_session, ws_message, safety_last_prompt, _last_decision_prompt,
                   ws_turns>>
    /\ UNCHANGED <<sessions, heap, turnVars, storeVars, timelineVars,
                   fnVars, retryVars, evalVars>>

\* the composition call returns: its log entry takes _last_compose_prompt, the
\* reply joins the history, the session is saved and the endpoint sends the reply
WsComposeReturns(c) ==
    /\ ws_pc[c] = "compose"
    /\ LET ref == ws_session[c][1]
           s == heap[ref]
           turn == ws_message[c][1]
       IN  /\ agent_logs' = agent_logs \cup
                  {agent_log_entry(s, turn, "response_composer", _last_compose_prompt)}
           /\ heap' = [heap EXCEPT ![ref] = add_message(s,
                          create_teacher_message("Let's continue with our lesson!"))]
           /\ sessions' = save(ref)
    /\ ws_pc' = [ws_pc EXCEPT ![c] = "loop"]
    /\ ws_message' = [ws_message EXCEPT ![c] = None]
    /\ UNCHANGED <<ws_session, safety_last_prompt, _last_decision_prompt,
                   _last_compose_prompt, ws_turns>>
    /\ UNCHANGED <<turnVars, storeVars, timelineVars,
                   fnVars, retryVars, evalVars>>

\* a call of the turn raises past process_turn's handlers: the outer except
\* returns the failed result and the endpoint sends it
WsTurnFails(c) ==
    /\ ws_pc[c] \in {"decision", "compose"}
    /\ ws_pc' = [ws_pc EXCEPT ![c] = "loop"]
    /\ ws_message' = [ws_message EXCEPT ![c] = None]
    /\ UNCHANGED <<ws_session, safety_last_prompt, _last_decision_prompt,
                   _last_compose_prompt, agent_logs, ws_turns>>
    /\ UNCHANGED <<sessions, heap, turnVars, storeVars, timelineVars,
                   fnVars, retryVars, evalVars>>

\* WebSocketDisconnect while waiting in receive_json
WsDisconnect(c) ==
    /\ ws_pc[c] = "loop"
    /\ ws_pc' = [ws_pc EXCEPT ![c] = "closed"]
    /\ ws_session' = [ws_session EXCEPT ![c] = None]
    /\ UNCHANGED <<ws_message, safety_last_prompt, _last_decision_prompt,
                   _last_compose_prompt, agent_logs, ws_turns>>
    /\ UNCHANGED <<sessions, heap, turnVars, storeVars, timelineVars,
                   fnVars, retryVars, evalVars>>

NextServer ==
    \/ \E sid \in ServerSessionIds : CreateSession(sid)
    \/ \E c \in Connections, sid \in ServerSessionIds : WsConnect(c, sid)
    \/ \E c \in Connections, msg \in ServerMessages : WsReceiveChat(c, msg)
    \/ \E c \in Connections, is_safe \in BOOLEAN : WsSafetyReturns(c, is_safe)
    \/ \E c \in Connections : WsDecisionReturns(c)
    \/ \E c \in Connections : WsComposeReturns(c)
    \/ \E c \in Connections : WsTurnFails(c)
    \/ \E c \in Connections : WsDisconnect(c)

SpecServer == Init /\ [][NextServer]_vars

\* ---------------------------------------------------------------------
\* Completion calls with retry
\* (backend/services/llm_service.py, LLMService._execute_with_retry_async)
\* ---------------------------------------------------------------------

MaxRetriesArg == 3

\* Settings.llm_max_retries
llm_max_retries == 3

\* values of the initial_retry_delay argument, in seconds
RetryDelays == {1, 2}

\* what api_call_fn may raise: the provider's rate-limit, timeout and general
\* API errors, and an exception that is none of them
ApiCallErrors == {"RateLimitError", "APITimeoutError", "APIError", "ValueError"}

_is_rate_limit_error(e) == e = "RateLimitError"

_is_timeout_error(e) == e = "APITimeoutError"

\* the rate-limit and timeout errors are API errors too
_is_api_error(e) == e \in {"RateLimitError", "APITimeoutError", "APIError"}

\* a delay that stays as it is after a sleep
retry_delay_unchanged(d) == d

\* "delay *= 2"
next_retry_delay(d) == d * 2

\* LLMService.__init__ and the entry of _execute_with_retry_async up to the
\* first await of api_call_fn
RetryCallBegins(max_retries, initial_retry_delay) ==
    /\ rt_pc = "idle"
    /\ rt_service' = Some([max_retries |-> IF max_retries # 0 THEN max_retries
                                           ELSE llm_max_retries,
                           initial_retry_delay |-> initial_retry_delay])
    /\ last_error' = None
    /\ delay' = initial_retry_delay
    /\ attempt' = 0
    /\ rt_pc' = "calling"
    /\ UNCHANGED <<rt_errors, rt_slept, rt_reported>>
    /\ UNCHANGED <<pipelineVars, serverVars, storeVars, timelineVars, fnVars, evalVars>>

\* api_call_fn returns: the result is returned
RetryApiReturns ==
    /\ rt_pc = "calling"
    /\ rt_pc' = "returned"
    /\ UNCHANGED <<rt_service, attempt, delay, last_error, rt_errors, rt_slept,
                   rt_reported>>
    /\ UNCHANGED <<pipelineVars, serverVars, storeVars, timelineVars, fnVars, evalVars>>

\* api_call_fn raises e: the except branch up to its sleep or its raise
RetryApiRaises(e) ==
    /\ rt_pc = "calling"
    /\ rt_errors' = Append(rt_errors, e)
    /\ IF _is_rate_limit_error(e) \/ _is_timeout_error(e)
       THEN /\ last_error' = Some(e)
            /\ rt_slept' = Append(rt_slept, delay)
            /\ rt_pc' = "sleeping"
            /\ UNCHANGED rt_reported
       ELSE IF _is_api_error(e)
       THEN /\ rt_reported' = Some(attempt + 1)
            /\ rt_pc' = "service_error"
            /\ UNCHANGED <<last_error, rt_slept>>
       ELSE /\ rt_pc' = "raised"
            /\ UNCHANGED <<last_error, rt_slept, rt_reported>>
    /\ UNCHANGED <<rt_service, attempt, delay>>
    /\ UNCHANGED <<pipelineVars, serverVars, storeVars, timelineVars, fnVars, evalVars>>

\* asyncio.sleep returns: the delay doubles and the loop goes to its next
\* attempt, or ends and LLMServiceError is raised
RetrySleepEnds ==
    /\ rt_pc = "sleeping"
    /\ delay' = next_retry_delay(delay)
    /\ IF attempt + 1 < rt_service[1].max_retries
       THEN /\ attempt' = attempt + 1
            /\ rt_pc' = "calling"
            /\ UNCHANGED rt_reported
       ELSE /\ rt_reported' = Some(rt_service[1].max_retries)
            /\ rt_pc' = "service_error"
            /\ UNCHANGED attempt
    /\ UNCHANGED <<rt_service, last_error, rt_errors, rt_slept>>
    /\ UNCHANGED <<pipelineVars, serverVars, storeVars, timelineVars, fnVars, evalVars>>

NextRetry ==
    \/ \E max_retries \in 0..MaxRetriesArg, initial_retry_delay \in RetryDelays :
           RetryCallBegins(max_retries, initial_retry_delay)
    \/ RetryApiReturns
    \/ \E e \in ApiCallErrors : RetryApiRaises(e)
    \/ RetrySleepEnds

\* the provider call and the sleep both come to an end
SpecRetry == Init /\ [][NextRetry]_vars /\ WF_vars(NextRetry)

\* ---------------------------------------------------------------------
\* Single calls of the orchestrator's helper functions on sessions and
\* outputs drawn from the values they can take
\* ---------------------------------------------------------------------

\* a reasoning effort that does not look at the turn count
determine_reasoning_effort_ignores_turns(s) ==
    IF \/ Len(s.misconceptions) > 2
       \/ s.session_summary.progress_trend = "struggling"
       \/ Len(s.session_summary.stuck_points) > 2
    THEN "medium" ELSE "low"

\* TeacherOrchestrator._determine_reasoning_effort
_determine_reasoning_effort(s) ==
    IF \/ Len(s.misconceptions) > 2
       \/ s.session_summary.progress_trend = "struggling"
       \/ Len(s.session_summary.stuck_points) > 2
       \/ s.turn_count > 15
    THEN "medium" ELSE "low"

\* SessionSummary.progress_trend
ProgressTrends == {"improving", "steady", "struggling"}

\* the most misconceptions and stuck points of a drawn session
MaxDifficulties == 3

\* turn counts at and around the one from which the effort is raised
EffortTurnCounts == {10, 15, 16, 17}

\* mastery scores of a concept
MasteryLevels == {Zero, <<1, 5>>, <<2, 5>>, <<3, 5>>, <<4, 5>>, One}

\* scores an evaluator may give
TrendScores == {<<1, 2>>, <<4, 5>>, One}

\* a session with that many misconceptions and stuck points, that trend, turn
\* count and mastery of the two concepts of the plan
a_session(n_misconceptions, trend, n_stuck, turns, m1, m2) ==
    [create_session("sess_1") EXCEPT
        !.turn_count = turns,
        !.misconceptions = [i \in 1..n_misconceptions |->
                               [concept |-> "what_is_a_fraction",
                                description |-> "misconception " \o ToString(i),
                                resolved |-> FALSE]],
        !.mastery_estimates = [c \in get_concepts |->
                                  IF c = "what_is_a_fraction" THEN m1 ELSE m2],
        !.session_summary.progress_trend = trend,
        !.session_summary.stuck_points = [i \in 1..n_stuck |->
                               "what_is_a_fraction: misconception " \o ToString(i)]]

\* the sessions _determine_reasoning_effort is called on
EffortSessions ==
    { a_session(nm, tr, ns, tc, Zero, Zero) :
        nm \in 0..MaxDifficulties, tr \in ProgressTrends,
        ns \in 0..MaxDifficulties, tc \in EffortTurnCounts }

\* the sessions _update_progress_trend is called on
TrendSessions ==
    { a_session(0, tr, 0, 10, m1, m2) :
        tr \in ProgressTrends, m1 \in MasteryLevels, m2 \in MasteryLevels }

\* the specialist outputs _update_progress_trend is called with: no evaluator
\* entry, the entry of a failed evaluator, an evaluator output
TrendOutputs ==
    {EmptyDict, [n \in {"evaluator"} |-> None]}
    \cup
    { [n \in {"evaluator"} |-> Some([e EXCEPT !.score = sc])] :
        e \in {x \in EvaluatorOutputs : x.score = One}, sc \in TrendScores }

\* a concept name of 65 characters
LongConcept == "comparing_fractions_with_unlike_denominators_using_common_multiples"

\* texts of the turn-summary completion: short, quoted, of 100 and of 104
\* characters
SummaryCompletions ==
    { "Explained fractions concept using pizza slices example",
      " \"Student gave wrong answer about equivalent fractions, clarified concept\" ",
      "Student compared 1/4 with 1/2 using the pizza slices example and explained why 1/2 is the larger one",
      "Student compared 1/4 with 1/2 using the pizza slices example and then explained why 1/2 is larger one" }

\* _generate_orchestrator_decision up to the completion call: the
\* reasoning_effort argument it passes
CallDetermineReasoningEffort(s) ==
    /\ fn_args = None
    /\ fn_args' = Some([fn |-> "_determine_reasoning_effort", session |-> s])
    /\ fn_result' = Some(_determine_reasoning_effort(s))
    /\ UNCHANGED <<pipelineVars, serverVars, storeVars, timelineVars, retryVars, evalVars>>

\* one call of _update_progress_trend
CallUpdateProgressTrend(s, outs) ==
    /\ fn_args = None
    /\ fn_args' = Some([fn |-> "_update_progress_trend", session |-> s, outs |-> outs])
    /\ fn_result' = Some(_update_progress_trend(s, outs))
    /\ UNCHANGED <<pipelineVars, serverVars, storeVars, timelineVars, retryVars, evalVars>>

\* one call of _generate_turn_summary, from its completion call on
CallGenerateTurnSummary(outcome, intent, concept, outs) ==
    /\ fn_args = None
    /\ fn_args' = Some([fn |-> "_generate_turn_summary", outcome |-> outcome,
                        intent |-> intent, concept |-> concept, outs |-> outs])
    /\ fn_result' = Some(_generate_turn_summary(outcome, intent, concept, outs))
    /\ UNCHANGED <<pipelineVars, serverVars, storeVars, timelineVars, retryVars, evalVars>>

NextCalls ==
    \/ \E s \in EffortSessions : CallDetermineReasoningEffort(s)
    \/ \E s \in TrendSessions, outs \in TrendOutputs : CallUpdateProgressTrend(s, outs)
    \/ \E outcome \in {Returned(x) : x \in SummaryCompletions} \cup {Raised("LLMServiceError")},
          intent \in ClassifierIntents,
          concept \in {None, Some("what_is_a_fraction"), Some(LongConcept)},
          outs \in {EmptyDict} \cup {[n \in {"evaluator"} |-> Some(e)] : e \in EvaluatorOutputs} :
           CallGenerateTurnSummary(outcome, intent, concept, outs)

SpecCalls == Init /\ [][NextCalls]_vars

\* ---------------------------------------------------------------------
\* The evaluation pipeline behind the dashboard endpoints
\* (backend/main.py, start_evaluation, retry_evaluation and their threads)
\* ---------------------------------------------------------------------

MaxEvalThreads == 3

\* EvalStatus
EvalStatuses == {"idle", "loading_persona", "running_session", "evaluating",
                 "generating_reports", "complete", "failed"}

\* the statuses from which a start or retry request is accepted
RestingStatuses == {"idle", "complete", "failed"}

\* the runs a retry request may name
EvalRunIds == {"run_1"}

\* f"run_{timestamp}", the run a started pipeline creates
NewRunId == "run_2"

\* the status a pipeline thread writes next: _run_evaluation_pipeline goes
\* through all four running statuses, _retry_evaluation starts at "evaluating"
next_eval_status(kind, at) ==
    CASE at = "started" -> IF kind = "start" THEN "loading_persona" ELSE "evaluating"
      [] at = "loading_persona"    -> "running_session"
      [] at = "running_session"    -> "evaluating"
      [] at = "evaluating"         -> "generating_reports"
      [] at = "generating_reports" -> "complete"
      [] OTHER                     -> at

\* the places of a thread that has not written "complete" or "failed"
PipelinePlaces == {"started", "loading_persona", "running_session", "evaluating",
                   "generating_reports"}

\* a POST to /api/evaluation/start or .../retry-evaluation reaches its handler,
\* which runs up to its "with _eval_lock"
EvalRequestArrives(r, kind, run_id) ==
    /\ eval_request[r].at \in {"idle", "done"}
    /\ Len(eval_thread) < MaxEvalThreads
    /\ (kind = "start" /\ run_id = "") \/ (kind = "retry" /\ run_id \in EvalRunIds)
    /\ eval_request' = [eval_request EXCEPT ![r] =
           [NoRequest EXCEPT !.kind = kind, !.at = "waiting", !.run_id = run_id]]
    /\ UNCHANGED <<_eval_state, _eval_lock, eval_thread>>
    /\ UNCHANGED <<pipelineVars, serverVars, storeVars, timelineVars, fnVars, retryVars>>

\* a handler entering its "with _eval_lock" block whoever holds the lock
EvalRequestEntersNoWait(r) ==
    /\ eval_request[r].at = "waiting"
    /\ _eval_lock' = Some(r)
    /\ eval_request' = [eval_request EXCEPT ![r].at = "locked"]
    /\ UNCHANGED <<_eval_state, eval_thread>>
    /\ UNCHANGED <<pipelineVars, serverVars, storeVars, timelineVars, fnVars, retryVars>>

\* "with _eval_lock": the handler gets the lock once it is free
EvalRequestEnters(r) ==
    /\ eval_request[r].at = "waiting"
    /\ _eval_lock = None
    /\ _eval_lock' = Some(r)
    /\ eval_request' = [eval_request EXCEPT ![r].at = "locked"]
    /\ UNCHANGED <<_eval_state, eval_thread>>
    /\ UNCHANGED <<pipelineVars, serverVars, storeVars, timelineVars, fnVars, retryVars>>

\* the test of the status: HTTPException 409 leaves the block and the handler
\* when an evaluation is running
EvalRequestChecks(r) ==
    /\ eval_request[r].at = "locked"
    /\ IF _eval_state.status \notin RestingStatuses
       THEN /\ eval_request' = [eval_request EXCEPT ![r].at = "done",
                                                    ![r].saw = _eval_state.status,
                                                    ![r].answer = 409]
            /\ _eval_lock' = None
       ELSE /\ eval_request' = [eval_request EXCEPT ![r].at = "checked",
                                                    ![r].saw = _eval_state.status]
            /\ UNCHANGED _eval_lock
    /\ UNCHANGED <<_eval_state, eval_thread>>
    /\ UNCHANGED <<pipelineVars, serverVars, storeVars, timelineVars, fnVars, retryVars>>

\* _eval_state.update(...) and the end of the "with" block
EvalRequestMoves(r) ==
    /\ eval_request[r].at = "checked"
    /\ _eval_state' = IF eval_request[r].kind = "start"
                      THEN [status |-> "loading_persona", run_id |-> None]
                      ELSE [status |-> "evaluating",
                            run_id |-> Some(eval_request[r].run_id)]
    /\ _eval_lock' = None
    /\ eval_request' = [eval_request EXCEPT ![r].at = "starting"]
    /\ UNCHANGED eval_thread
    /\ UNCHANGED <<pipelineVars, serverVars, storeVars, timelineVars, fnVars, retryVars>>

\* threading.Thread(...).start() and the handler's return
EvalRequestStartsThread(r) ==
    /\ eval_request[r].at = "starting"
    /\ eval_thread' = Append(eval_thread, [kind |-> eval_request[r].kind, at |-> "started"])
    /\ eval_request' = [eval_request EXCEPT ![r].at = "done", ![r].answer = 200]
    /\ UNCHANGED <<_eval_state, _eval_lock>>
    /\ UNCHANGED <<pipelineVars, serverVars, storeVars, timelineVars, fnVars, retryVars>>

\* the thread reaches its next _update_eval_state(status=...); a started
\* pipeline writes its run_id just before its first status
EvalThreadAdvances(i) ==
    /\ eval_thread[i].at \in PipelinePlaces
    /\ _eval_lock = None
    /\ \E nxt \in {next_eval_status(eval_thread[i].kind, eval_thread[i].at)} :
           /\ _eval_state' = [status |-> nxt,
                               run_id |-> IF eval_thread[i].at = "started" /\ eval_thread[i].kind = "start"
                                          THEN Some(NewRunId) ELSE _eval_state.run_id]
           /\ eval_thread' = [eval_thread EXCEPT ![i].at = nxt]
    /\ UNCHANGED <<_eval_lock, eval_request>>
    /\ UNCHANGED <<pipelineVars, serverVars, storeVars, timelineVars, fnVars, retryVars>>

\* a step of the thread raises: the except branch writes "failed"
EvalThreadFails(i) ==
    /\ eval_thread[i].at \in PipelinePlaces
    /\ _eval_lock = None
    /\ _eval_state' = [_eval_state EXCEPT !.status = "failed"]
    /\ eval_thread' = [eval_thread EXCEPT ![i].at = "failed"]
    /\ UNCHANGED <<_eval_lock, eval_request>>
    /\ UNCHANGED <<pipelineVars, serverVars, storeVars, timelineVars, fnVars, retryVars>>

\* after its last status the thread writes error.txt or cleans up, and ends
EvalThreadExits(i) ==
    /\ eval_thread[i].at \in {"complete", "failed"}
    /\ eval_thread' = [eval_thread EXCEPT ![i].at = "exited"]
    /\ UNCHANGED <<_eval_state, _eval_lock, eval_request>>
    /\ UNCHANGED <<pipelineVars, serverVars, storeVars, timelineVars, fnVars, retryVars>>

NextEval ==
    \/ \E r \in Requests, kind \in {"start", "retry"}, run_id \in EvalRunIds \cup {""} :
           EvalRequestArrives(r, kind, run_id)
    \/ \E r \in Requests : EvalRequestEnters(r)
    \/ \E r \in Requests : EvalRequestChecks(r)
    \/ \E r \in Requests : EvalRequestMoves(r)
    \/ \E r \in Requests : EvalRequestStartsThread(r)
    \/ \E i \in 1..Len(eval_thread) : EvalThreadAdvances(i)
    \/ \E i \in 1..Len(eval_thread) : EvalThreadFails(i)
    \/ \E i \in 1..Len(eval_thread) : EvalThreadExits(i)

SpecEval == Init /\ [][NextEval]_vars

\* ---------------------------------------------------------------------
\* Properties
\* ---------------------------------------------------------------------

\* the last turn's safety check returned an unsafe verdict
UnsafeVerdict == safety_result # None /\ ~safety_result[1].is_safe

\* the evaluator of the last turn returned an output and _update_state has run
EvaluatorApplied ==
    /\ \E i \in 1..Len(trace) : trace[i] = "update_state"
    /\ "evaluator" \in DOMAIN settled
    /\ settled["evaluator"] # None

\* C1: in every turn the safety check is the first component invoked (before the
\* decision call, the classifier and every specialist), and while it is pending
\* the session differs from the session at turn start only by the incremented
\* turn counter and the appended student message.
C1_SafetyInvokedFirst ==
    /\ trace # <<>> =>
          /\ trace[1] = "safety"
          /\ \A i \in 2..Len(trace) : trace[i] # "safety"
    /\ pc = "safety" =>
          /\ trace = <<"safety">>
          /\ session.turn_count = pre[1].turn_count + 1
          /\ session.conversation_history =
                 Append(pre[1].conversation_history,
                        [role |-> "student", content |-> student_message[1]])
          /\ [session EXCEPT !.turn_count = 0, !.conversation_history = <<>>]
                 = [pre[1] EXCEPT !.turn_count = 0, !.conversation_history = <<>>]

\* C1 witness: the safety check of a second turn is pending
C1_Witness ==
    /\ pc = "safety"
    /\ pre[1].turn_count = 1
    /\ pre[1].conversation_history # <<>>

\* C2: after an unsafe verdict the turn is Blocked: nothing but the safety check
\* and the save ran (no decision, classifier, specialist, state update,
\* composition or summary), and mastery, misconceptions, step cursor, question,
\* awaiting flag, off-topic count and turn timeline are those of the turn start.
C2_UnsafeTurnIsBlocked ==
    UnsafeVerdict =>
        /\ terminal = "Blocked"
        /\ pc = "idle"
        /\ trace = <<"safety", "save">>
        /\ decision = None
        /\ DOMAIN settled = {}
        /\ response = None
        /\ session.mastery_estimates = pre[1].mastery_estimates
        /\ session.misconceptions = pre[1].misconceptions
        /\ session.current_step = pre[1].current_step
        /\ session.last_question = pre[1].last_question
        /\ session.awaiting_response = pre[1].awaiting_response
        /\ session.off_topic_count = pre[1].off_topic_count
        /\ session.session_summary.turn_timeline = pre[1].session_summary.turn_timeline

\* C2 witness: a turn is Blocked in a session that has a question pending and a
\* timeline entry from an earlier turn
C2_Witness ==
    /\ terminal = "Blocked"
    /\ pre[1].awaiting_response
    /\ pre[1].last_question # None
    /\ pre[1].session_summary.turn_timeline # <<>>

C4_SafetyFailureFailsClosed ==
    (trace # <<>> /\ safety_result = None /\ pc # "safety") =>
        /\ terminal = "Failed"
        /\ pc = "idle"
        /\ trace = <<"safety">>
        /\ decision = None
        /\ DOMAIN settled = {}
        /\ session.safety_flags = pre[1].safety_flags
        /\ session.warning_count = pre[1].warning_count
        /\ result # None
        /\ result[1].response =
               "I apologize, but I had a moment of confusion. Could you please repeat that?"
        /\ result[1].intent = "error"

\* C4 witness: the safety check failed in a session that already carries a flag
\* and a warning
C4_Witness ==
    /\ terminal = "Failed"
    /\ trace = <<"safety">>
    /\ safety_result = None
    /\ pre[1].safety_flags # <<>>
    /\ pre[1].warning_count > 0

\* C5: every turn that fails returns (process_turn is no longer in flight) and
\* its result is exactly the apology text with intent "error", an empty
\* specialists_called and state_changed false.
C5_FailureResult ==
    /\ terminal = "Failed" =>
          /\ pc = "idle"
          /\ result =
                 <<[ response |-> "I apologize, but I had a moment of confusion. Could you please repeat that?",
                     intent |-> "error",
                     specialists_called |-> <<>>,
                     state_changed |-> FALSE ]>>
    /\ (pc = "idle" /\ trace # <<>>) => (terminal # "none" /\ result # None)

\* C5 witness: the composition call failed after specialists ran and the state
\* update changed the session
C5_Witness ==
    /\ terminal = "Failed"
    /\ trace[Len(trace)] = "compose"
    /\ state_changed
    /\ DOMAIN settled # {}

\* C6 as stated: after a Failed turn the session the store returns equals the
\* session as it was before the turn.
C6_FailedTurnLeavesStoredSession ==
    terminal = "Failed" => get(pre[1].session_id) = pre

\* C7 as stated: between turns, every stored session has awaiting_response true
\* exactly when last_question is set.
C7_AwaitingIffQuestion ==
    pc = "idle" =>
        \A sid \in DOMAIN sessions :
            heap[sessions[sid]].awaiting_response
                <=> (heap[sessions[sid]].last_question # None)

\* C8: every mastery estimate of every session lies in [0, 1].
C8_MasteryInUnitInterval ==
    \A ref \in DOMAIN heap :
        \A c \in DOMAIN heap[ref].mastery_estimates :
            LET m == heap[ref].mastery_estimates[c]
            IN  /\ m[2] > 0
                /\ 0 <= m[1]
                /\ m[1] <= m[2]

\* C8 witness: after two turns a mastery estimate lies strictly between 0 and 1
C8_Witness ==
    \E ref \in DOMAIN heap :
        /\ heap[ref].turn_count = 2
        /\ \E c \in DOMAIN heap[ref].mastery_estimates :
               LET m == heap[ref].mastery_estimates[c]
               IN  0 < m[1] /\ m[1] < m[2]

C10_DispatchedDecisionNonEmpty ==
    decision # None =>
        /\ decision[1].specialists_to_call # <<>>
        /\ \A i \in 1..Len(decision[1].specialists_to_call) :
               decision[1].specialists_to_call[i] \in
                   {"explainer", "evaluator", "assessor", "topic_steering", "plan_adapter"}

\* the keys of the rule table of _create_fallback_decision
RuleTableIntents == {"answer", "question", "confusion", "off_topic", "continuation"}

\* C11: when the primary decision call raised and the fallback classifier
\* returned one of the intents answer, question, confusion, off_topic,
\* continuation, the decision in use calls [evaluator], [explainer], [explainer],
\* [topic_steering], [assessor] respectively, with strategy "sequential" and all
\* five specialist requirements absent.
C11_FallbackRuleTable ==
    (classified # None /\ classified[1] \in RuleTableIntents) =>
        /\ decision # None
        /\ decision[1].specialists_to_call =
               (CASE classified[1] = "answer"       -> <<"evaluator">>
                  [] classified[1] = "question"     -> <<"explainer">>
                  [] classified[1] = "confusion"    -> <<"explainer">>
                  [] classified[1] = "off_topic"    -> <<"topic_steering">>
                  [] classified[1] = "continuation" -> <<"assessor">>)
        /\ decision[1].execution_strategy = "sequential"
        /\ decision[1].explainer_requirements = None
        /\ decision[1].evaluator_requirements = None
        /\ decision[1].assessor_requirements = None
        /\ decision[1].topic_steering_requirements = None
        /\ decision[1].plan_adapter_requirements = None

\* the classifier returned "off_topic" after the primary call raised, and the
\* topic-steering specialist is the one dispatched
C11_Witness ==
    /\ classified = Some("off_topic")
    /\ trace = <<"safety", "decision", "classify", "topic_steering">>
    /\ decision # None
    /\ decision[1].specialists_to_call = <<"topic_steering">>
    /\ pc = "specialists"

\* C12: when the primary decision call raised and the fallback classifier
\* returned an intent that is not a key of the rule table (an intent string
\* outside the six intents of the decision included), the decision in use calls
\* [explainer] and the explainer is dispatched; the turn does not end Failed at
\* the classifier.
C12_UnknownIntentRoutesToExplainer ==
    (classified # None /\ classified[1] \notin RuleTableIntents) =>
        /\ decision # None
        /\ decision[1].specialists_to_call = <<"explainer">>
        /\ \E i \in 1..Len(trace) : trace[i] = "explainer"
        /\ ~(terminal = "Failed" /\ trace[Len(trace)] = "classify")

\* the specialists the dispatcher of the last turn was given
NameSet == {names[i] : i \in 1..Len(names)}

\* the dispatcher of the last turn has returned and _update_state has run
DispatchReturned == \E i \in 1..Len(trace) : trace[i] = "update_state"

\* the specialists invoked by the last turn, in order of invocation
SpecialistsInvoked == SelectSeq(trace, LAMBDA e : e \in SpecialistNames)

\* a result recorded for specialist n agrees with what its call did: None when
\* the call raised, the output it returned otherwise
ResultAgrees(n) ==
    IF n \in DOMAIN failures
    THEN settled[n] = None
    ELSE settled[n] # None /\ settled[n][1] \in SpecialistOutputs(n)

\* C13: in parallel mode, whatever subset of the specialists raises, every
\* specialist is launched, the result map has exactly one entry per dispatched
\* specialist (None for each that raised, its output for each that succeeded),
\* and no exception leaves the dispatcher: the turn never ends Failed there.
C13_ParallelPartialFailure ==
    (decision # None /\ decision[1].execution_strategy = "parallel") =>
        /\ SpecialistsInvoked = names
        /\ \A n \in DOMAIN settled : n \in NameSet /\ ResultAgrees(n)
        /\ DispatchReturned => DOMAIN settled = NameSet
        /\ pc = "idle" => DispatchReturned
        /\ ~(terminal = "Failed" /\ trace[Len(trace)] \in SpecialistNames)

\* a parallel dispatch of two specialists returned with the evaluator's call
\* raised and the assessor's output present
C13_Witness ==
    /\ decision # None
    /\ decision[1].execution_strategy = "parallel"
    /\ names = <<"evaluator", "assessor">>
    /\ DispatchReturned
    /\ "evaluator" \in DOMAIN failures
    /\ settled["evaluator"] = None
    /\ settled["assessor"] # None

\* C14: with the sequential executor (every strategy but "parallel") the
\* specialists are invoked one at a time in the order of specialists_to_call,
\* each only after all earlier ones settled; a call that raised is recorded as
\* None and the later specialists are still invoked.
C14_SequentialInOrder ==
    (decision # None /\ decision[1].execution_strategy # "parallel") =>
        /\ names = decision[1].specialists_to_call
        /\ SpecialistsInvoked = SubSeq(names, 1, Len(SpecialistsInvoked))
        /\ pc = "specialists" =>
               /\ Len(SpecialistsInvoked) = Cardinality(DOMAIN settled) + 1
               /\ DOMAIN settled =
                      {names[i] : i \in 1..(Len(SpecialistsInvoked) - 1)}
        /\ \A n \in DOMAIN settled : ResultAgrees(n)
        /\ DispatchReturned =>
               /\ SpecialistsInvoked = names
               /\ DOMAIN settled = NameSet
        /\ pc = "idle" => DispatchReturned

\* a sequential dispatch of evaluator then explainer in which the evaluator
\* raised and the explainer was still invoked and returned its output
C14_Witness ==
    /\ decision # None
    /\ decision[1].execution_strategy = "sequential"
    /\ names = <<"evaluator", "explainer">>
    /\ SpecialistsInvoked = <<"evaluator", "explainer">>
    /\ DispatchReturned
    /\ "evaluator" \in DOMAIN failures
    /\ settled["evaluator"] = None
    /\ settled["explainer"] # None

\* the specialists of the last turn whose call timed out
TimedOut == {n \in DOMAIN failures : failures[n] = "AgentTimeoutError"}

PipelineOrder ==
    <<"safety", "decision">>
        \o (IF pc = "classify" \/ classified # None THEN <<"classify">> ELSE <<>>)
        \o names
        \o <<"update_state", "compose", "summary", "save">>

C17_ResponseNonEmpty ==
    result # None => result[1].response # ""

\* the dispatcher of the last turn returned with every specialist's result absent
AllResultsAbsent ==
    /\ DispatchReturned
    /\ names # <<>>
    /\ \A n \in NameSet : settled[n] = None

\* C18: when the result of every dispatched specialist is absent, the composer
\* makes no completion call and returns the rule-based text determined by the
\* intent and the type and concept of the current step; the text is not empty
\* and the turn ends Persisted with it.
C18_TotalFailureFallback ==
    AllResultsAbsent =>
        /\ pc \in {"summary", "idle"}
        /\ response = Some(_generate_fallback_response(pre[1], decision[1].intent))
        /\ response[1] # ""
        /\ session.conversation_history[Len(session.conversation_history)]
               = create_teacher_message(response[1])
        /\ pc = "idle" =>
               /\ terminal = "Persisted"
               /\ result[1].response = response[1]

\* both specialists of a confusion turn on an explain step failed and the turn
\* ended Persisted with the rule-based text for it
C18_Witness ==
    /\ terminal = "Persisted"
    /\ names = <<"explainer", "assessor">>
    /\ AllResultsAbsent
    /\ get_step(pre[1].current_step)[1].type = "explain"
    /\ result[1].response =
           "I understand this can be tricky. Let me explain what_is_a_fraction in a different way."

\* C19: when the composition call raises while a specialist output is present,
\* the turn does not end Failed: it goes on with a rule-based response.
C19_ComposeFailureRecovered ==
    ~(/\ terminal = "Failed"
      /\ trace[Len(trace)] = "compose"
      /\ \E n \in DOMAIN settled : settled[n] # None)

\* the rule-based turn summaries for an intent and a concept
RuleBasedSummaries(intent, concept_str) ==
    CASE intent = "answer" ->
            {"Student answered correctly about " \o concept_str,
             "Student struggled with " \o concept_str \o ", needed clarification"}
      [] intent = "question" ->
            {"Student asked question about " \o concept_str \o ", tutor explained"}
      [] intent = "confusion" ->
            {"Student confused about " \o concept_str \o ", tutor clarified"}
      [] intent = "off_topic" -> {"Student went off-topic, redirected to lesson"}
      [] intent = "continuation" -> {"Continued lesson on " \o concept_str}
      [] OTHER -> {"Discussed " \o concept_str}

\* C20: when the turn-summary call raises, the turn still ends Persisted: the
\* timeline entry of the turn is the rule-based summary for the intent, and the
\* result carries the response, intent, specialists_called and state_changed
\* that were fixed before the summary call.
C20_SummaryFailureRecovered ==
    "summary" \in DOMAIN failures =>
        /\ pc = "idle"
        /\ terminal = "Persisted"
        /\ get(session.session_id) = Some(session)
        /\ LET tl == session.session_summary.turn_timeline
               concept_str == IF step_concept(pre[1]) = "what_is_a_fraction"
                              THEN "what is a fraction"
                              ELSE "numerator denominator"
           IN  /\ tl # <<>>
               /\ \E text \in RuleBasedSummaries(decision[1].intent, concept_str) :
                      tl[Len(tl)] = "Turn " \o ToString(session.turn_count) \o ": " \o text
        /\ result = Some(TurnResult(response[1], decision[1].intent, names, state_changed))
        /\ response[1] = session.conversation_history[
                             Len(session.conversation_history)].content

\* the summary call of an off-topic turn raised and the turn ended Persisted
\* with the rule-based entry in the timeline
C20_Witness ==
    /\ "summary" \in DOMAIN failures
    /\ terminal = "Persisted"
    /\ decision[1].intent = "off_topic"
    /\ session.session_summary.turn_timeline =
           <<"Turn 1: Student went off-topic, redirected to lesson">>
    /\ result[1].specialists_called = <<"topic_steering">>
    /\ result[1].state_changed

\* the evaluator of the last turn returned an output that _update_state applied
EvaluatorPresent ==
    DispatchReturned /\ isinstance(Get(settled, "evaluator"), "EvaluatorOutput")

\* the assessor of the last turn returned an output that _update_state applied
AssessorPresent ==
    DispatchReturned /\ isinstance(Get(settled, "assessor"), "AssessorOutput")

\* C21: on a turn with a present evaluator output (and no assessor output that
\* installs a new question) the current question is cleared together with the
\* awaiting flag, state_changed is true, and the step cursor is one more than at
\* turn start when the answer was judged correct below the last step, and
\* unchanged otherwise.
C21_EvaluatorClearsAndAdvances ==
    (EvaluatorPresent /\ ~AssessorPresent) =>
        /\ session.last_question = None
        /\ ~session.awaiting_response
        /\ state_changed
        /\ session.current_step =
               (IF settled["evaluator"][1].is_correct
                   /\ pre[1].current_step < total_steps
                THEN pre[1].current_step + 1
                ELSE pre[1].current_step)

\* C22: when a turn has ended, off_topic_count is one more than at turn start
\* if a topic-steering output was present in the turn, and what it was at turn
\* start otherwise (blocked and failed turns included).
C22_OffTopicCountedWhenPresent ==
    (pc = "idle" /\ terminal # "none") =>
        session.off_topic_count =
            pre[1].off_topic_count
              + (IF DispatchReturned /\ Get(settled, "topic_steering") # None
                 THEN 1 ELSE 0)

\* position of a specialist in the dispatch order (0 when it is not dispatched)
PositionOf(n) ==
    IF InSeq(n, names) THEN CHOOSE i \in 1..Len(names) : names[i] = n ELSE 0

\* C27: with the sequential executor, when the evaluator ran before the
\* explainer and judged the answer incorrect, the context the explainer is
\* invoked with carries the is_clarification flag.
C27_ExplainerGetsClarificationFlag ==
    (/\ decision # None
     /\ decision[1].execution_strategy # "parallel"
     /\ 0 < PositionOf("evaluator")
     /\ PositionOf("evaluator") < PositionOf("explainer")
     /\ InSeq("explainer", SpecialistsInvoked)
     /\ isinstance(Get(settled, "evaluator"), "EvaluatorOutput")
     /\ ~settled["evaluator"][1].is_correct)
    => "is_clarification" \in enriched_contexts(decision[1])["explainer"]

\* C28: in no turn are both an evaluator output (which clears the question) and
\* an assessor output (which installs a question) applied to the session.
C28_ClearAndInstallExclusive ==
    ~(EvaluatorPresent /\ AssessorPresent)

\* C29: when the evaluator, assessor and topic-steering results of a turn are
\* all absent, _update_state leaves mastery, misconceptions, step cursor, current
\* question, awaiting flag and off_topic_count as they were at turn start and
\* returns false.
C29_AbsentResultsLeaveState ==
    (/\ DispatchReturned
     /\ Get(settled, "evaluator") = None
     /\ Get(settled, "assessor") = None
     /\ Get(settled, "topic_steering") = None)
    => /\ state_changed = FALSE
       /\ session.mastery_estimates = pre[1].mastery_estimates
       /\ session.misconceptions = pre[1].misconceptions
       /\ session.current_step = pre[1].current_step
       /\ session.last_question = pre[1].last_question
       /\ session.awaiting_response = pre[1].awaiting_response
       /\ session.off_topic_count = pre[1].off_topic_count

\* C30: each turn that ends Persisted appends exactly one entry "Turn n: <summary>"
\* with n the turn counter, blocked and failed turns append none, and the
\* timeline always holds the latest entries, at most 30 of them (the oldest are
\* dropped first).
C30_TimelineBounded ==
    LET tl == tl_session.session_summary.turn_timeline
        n == Len(tl_entries)
    IN  /\ Len(tl) <= 30
        /\ tl = (IF n <= 30 THEN tl_entries ELSE SubSeq(tl_entries, n - 29, n))
        /\ n + tl_skipped = tl_session.turn_count

\* after 32 turns, one of them blocked or failed, the timeline holds the last
\* 30 of the 31 entries
C30_Witness ==
    /\ tl_session.turn_count = 32
    /\ tl_skipped = 1
    /\ Len(tl_entries) = 31
    /\ Len(tl_session.session_summary.turn_timeline) = 30
    /\ tl_session.session_summary.turn_timeline[1] = tl_entries[2]
    /\ tl_session.session_summary.turn_timeline[30]
           = "Turn 32: Explained fractions concept using pizza slices example"

\* the threads inside a "with self._lock" block of the store
InsideLock == {t \in Threads : thread_op[t].at \in {"locked", "checked"}}

\* C25: every store call reads and writes the map only while it holds the
\* store's lock: at most one thread is inside a locked block, it is the holder
\* of the lock, and no call removes a session that another call saved after the
\* removing call had looked at the map.
C25_StoreLockDiscipline ==
    /\ \A t \in InsideLock : _lock = Some(t)
    /\ Cardinality(InsideLock) <= 1
    /\ _lock = None => InsideLock = {}
    /\ lost = {}

\* one thread holds the lock in cleanup_expired or list_sessions, having found
\* an expired session, while another thread's save of that session waits for
\* the lock
C25_Witness ==
    \E t, u \in Threads :
        /\ thread_op[t].at = "checked"
        /\ thread_op[t].name \in {"list_sessions", "cleanup_expired"}
        /\ thread_op[u].at = "waiting"
        /\ thread_op[u].name = "save"
        /\ thread_op[u].arg \in thread_op[t].found
        /\ _lock = Some(t)

\* C26: get hands out no session older than the timeout, and a session that
\* was removed because it had expired is never in the store again.
C26_ExpiredNeverRetrievable ==
    /\ \A t \in Threads :
           (returned[t].name = "get" /\ returned[t].value = "session")
               => returned[t].age <= timeout_seconds
    /\ reclaimed \cap _sessions = {}

\* the connections with a process_turn call that has not returned
InTurn == {c \in Connections : ws_pc[c] \in TurnPlaces}

\* C23: no two connections have a turn in flight on the same session at the
\* same time.
C23_OneTurnPerSession ==
    \A c1, c2 \in InTurn : c1 # c2 => ws_session[c1] # ws_session[c2]

\* C24: the prompt stored in each safety, decision and composition log entry
\* is the one built from the session and the message of the entry's own turn.
C24_LogsDeriveFromOwnTurn ==
    \A e \in agent_logs :
        /\ e.prompt # None
        /\ e.prompt[1].session_id = e.session_id
        /\ e.prompt[1].turn_id = e.turn_id

TurnEntered == cur # None /\ pre # None

\* the counter of every session object moves in a step by exactly the number
\* of process_turn calls entered on it in that step
TurnCounterStep ==
    \A r \in DOMAIN heap :
        heap'[r].turn_count = heap[r].turn_count +
            (IF pc = "idle" /\ pc' # "idle" /\ cur' = Some(r) THEN 1 ELSE 0)

\* C37: the turn counter never decreases and grows by exactly 1 with every
\* process_turn call, however the turn ends, and the turn id computed at the
\* start of a turn is "turn_" followed by the counter's value after the
\* increment.
C37_TurnCounterMonotone ==
    /\ [](TurnEntered =>
            /\ session.turn_count = pre[1].turn_count + 1
            /\ turn_id = Some("turn_" \o ToString(session.turn_count)))
    /\ [][TurnCounterStep]_vars

\* the second turn of a session ended Failed with the counter at 2
C37_Witness ==
    /\ TurnEntered
    /\ pc = "idle"
    /\ terminal = "Failed"
    /\ pre[1].turn_count = 1
    /\ session.turn_count = 2
    /\ turn_id = Some("turn_2")

\* C39: when the outputs of a turn hold both an evaluator output and an
\* assessor output, the evaluator's effects are applied first: the mastery of
\* the step's concept is updated, the cursor advances on a correct answer below
\* the last step, and the turn ends awaiting a response to the assessor's
\* question, whose concept is that of the step the cursor then points to.
C39_EvaluatorBeforeAssessor ==
    (EvaluatorPresent /\ AssessorPresent) =>
        LET ev == settled["evaluator"][1]
            as == settled["assessor"][1]
            before == pre[1]
            concept == step_concept(before)
        IN  /\ session.mastery_estimates[concept] =
                   update_mastery_estimate(before.mastery_estimates[concept],
                                           ev.is_correct, ev.score)
            /\ session.current_step = before.current_step +
                   (IF ev.is_correct /\ before.current_step < total_steps THEN 1 ELSE 0)
            /\ session.awaiting_response
            /\ session.last_question # None
            /\ session.last_question[1].question_text = as.question
            /\ session.last_question[1].expected_answer = as.expected_answer
            /\ session.last_question[1].concept = step_concept(session)

\* a turn at step 2 whose evaluator judged the answer correct and whose
\* assessor returned a question ended with the cursor at step 3 and the
\* question installed for step 3's concept
C39_Witness ==
    /\ EvaluatorPresent
    /\ AssessorPresent
    /\ pc = "idle"
    /\ terminal = "Persisted"
    /\ settled["evaluator"][1].is_correct
    /\ pre[1].current_step = 2
    /\ session.current_step = 3
    /\ session.awaiting_response
    /\ session.last_question # None
    /\ session.last_question[1].concept = "numerator_denominator"

\* C38: the step cursor of a session stays between 1 and the number of steps
\* of its plan, so the completion flag is never true and the progress never
\* reaches 100 per cent, however many answers are judged correct.
C38_CursorWithinPlan ==
    /\ 1 <= tl_session.current_step
    /\ tl_session.current_step <= total_steps
    /\ ~is_complete(tl_session)
    /\ progress_percentage(tl_session) < 100

\* the first three turns of the session were answers judged correct, the third
\* of them given with the cursor already at the last step
C38_Witness ==
    /\ Len(tl_entries) >= total_steps
    /\ \A i \in 1..total_steps :
           tl_entries[i] = "Turn " \o ToString(i) \o ": " \o AnsweredSummary
    /\ tl_session.current_step = total_steps

\* the requirement keys a decision could put into a context
RequirementKeys == {n \o "_requirements" : n \in SpecialistNames}

\* C34: the dispatcher gives every specialist of specialists_to_call a context
\* with an additional_context object of its own, equal to the base one except
\* for the specialist's own requirements under "<name>_requirements" when the
\* decision carries them; requirements of other specialists, called or not,
\* are in no other context, and the base context is as it was.
C34_ContextsAreSeparateCopies ==
    decision # None =>
        LET d == decision[1]
            e == context_objects(d)
            ctxs == e.enriched_contexts
            dict_of(n) == e.dicts[ctxs[n].additional_context]
        IN  /\ DOMAIN ctxs = {d.specialists_to_call[i] : i \in 1..Len(d.specialists_to_call)}
            /\ e.dicts[1] = base_additional_context
            /\ \A n \in DOMAIN ctxs :
                   /\ ctxs[n].additional_context # 1
                   /\ \A m \in DOMAIN ctxs \ {n} :
                          ctxs[m].additional_context # ctxs[n].additional_context
                   /\ \A k \in BaseContextKeys :
                          k \in DOMAIN dict_of(n) /\ dict_of(n)[k] = base_additional_context[k]
                   /\ DOMAIN dict_of(n) \cap RequirementKeys =
                          (IF get_requirements_for_specialist(d, n) # None
                           THEN {n \o "_requirements"} ELSE {})
                   /\ get_requirements_for_specialist(d, n) # None =>
                          dict_of(n)[n \o "_requirements"] =
                              get_requirements_for_specialist(d, n)[1]

\* a dispatch is under way for a decision that calls evaluator and explainer
\* and carries requirements for the explainer and for the assessor, which it
\* does not call
C34_Witness ==
    /\ decision # None
    /\ pc = "specialists"
    /\ names = <<"evaluator", "explainer">>
    /\ decision[1].explainer_requirements # None
    /\ decision[1].assessor_requirements # None
    /\ decision[1].evaluator_requirements = None
    /\ "explainer_requirements" \in
           DOMAIN context_objects(decision[1]).dicts[
               context_objects(decision[1]).enriched_contexts["explainer"].additional_context]

\* the errors after which the completion call tries again
TransientErrors == {"RateLimitError", "APITimeoutError"}

\* the i-th sleep of a call lasts initial_retry_delay * 2^(i-1)
RECURSIVE DoubledDelay(_, _)
DoubledDelay(first, i) == IF i <= 1 THEN first ELSE 2 * DoubledDelay(first, i - 1)

\* the call has come to its end
RetryCallEnded == rt_pc \in {"returned", "service_error", "raised"}

\* what holds of a completion call at every moment
RetryCallInvariant ==
    rt_pc # "idle" =>
        LET n == Len(rt_errors)
            max_retries == rt_service[1].max_retries
            calls == n + (IF rt_pc \in {"calling", "returned"} THEN 1 ELSE 0)
            transient(i) == rt_errors[i] \in TransientErrors
        IN  /\ calls <= max_retries
            /\ \A i \in 1..(n - 1) : transient(i)
            /\ rt_pc \in {"calling", "sleeping", "returned"} => \A i \in 1..n : transient(i)
            /\ Len(rt_slept) = Cardinality({i \in 1..n : transient(i)})
            /\ \A i \in 1..Len(rt_slept) :
                   rt_slept[i] = DoubledDelay(rt_service[1].initial_retry_delay, i)
            /\ rt_pc = "service_error" =>
                   \/ /\ n = max_retries
                      /\ \A i \in 1..n : transient(i)
                      /\ rt_reported = Some(max_retries)
                   \/ /\ rt_errors[n] = "APIError"
                      /\ rt_reported = Some(n)
            /\ rt_pc = "raised" => rt_errors[n] \notin TransientErrors \cup {"APIError"}

\* C35: a completion call makes at most max_retries attempts and ends: it
\* tries again only after a rate-limit or timeout error, sleeping a delay that
\* doubles each time, returns the first result it gets, raises the service
\* error at once on another API error, and raises it after max_retries
\* transient failures in a row.
C35_RetryTerminates ==
    /\ []RetryCallInvariant
    /\ (rt_pc = "calling") ~> RetryCallEnded

\* a call with max_retries 3 and initial delay 1 failed three times with
\* transient errors, slept 1, 2 and 4 seconds and raised the service error
C35_Witness ==
    /\ rt_pc = "service_error"
    /\ rt_service = Some([max_retries |-> 3, initial_retry_delay |-> 1])
    /\ Len(rt_errors) = 3
    /\ rt_slept = <<1, 2, 4>>
    /\ rt_reported = Some(3)

\* a call of the named function has been made
Called(fn) == fn_args # None /\ fn_args[1].fn = fn

\* C31: every turn summary, from the completion or from the rule-based
\* fallback, is at most 100 characters long.
C31_SummaryAtMost100 ==
    Called("_generate_turn_summary") => Len(fn_result[1]) <= 100

\* the mean of the mastery scores of a session
AverageMastery(s) ==
    RMul(RSum(s.mastery_estimates, DOMAIN s.mastery_estimates),
         <<1, Cardinality(DOMAIN s.mastery_estimates)>>)

\* C32 as stated: with an evaluator output, correct with score >= 0.8 and
\* average mastery >= 0.6 gives improving, correct with average < 0.6 gives
\* steady, incorrect with average < 0.4 gives struggling, incorrect with
\* average >= 0.4 gives steady; without one the trend is unchanged.
C32_TrendTable ==
    Called("_update_progress_trend") =>
        LET s == fn_args[1].session
            ev == Get(fn_args[1].outs, "evaluator")
            avg == AverageMastery(s)
            trend == fn_result[1].session_summary.progress_trend
        IN  IF ev = None THEN trend = s.session_summary.progress_trend
            ELSE /\ (ev[1].is_correct /\ RLeq(<<4, 5>>, ev[1].score) /\ RLeq(<<3, 5>>, avg))
                        => trend = "improving"
                 /\ (ev[1].is_correct /\ RLt(avg, <<3, 5>>)) => trend = "steady"
                 /\ (~ev[1].is_correct /\ RLt(avg, <<2, 5>>)) => trend = "struggling"
                 /\ (~ev[1].is_correct /\ RLeq(<<2, 5>>, avg)) => trend = "steady"

\* C32, amended: a correct answer sets the trend only when its score is at
\* least 0.8 (improving for average mastery >= 0.6, steady below); a correct
\* answer with a lower score leaves the trend as it was; an incorrect answer
\* gives struggling for average < 0.4 and steady otherwise; without an
\* evaluator output the trend is unchanged; nothing else of the session changes.
C32_TrendTableScored ==
    Called("_update_progress_trend") =>
        LET s == fn_args[1].session
            ev == Get(fn_args[1].outs, "evaluator")
            avg == AverageMastery(s)
            old == s.session_summary.progress_trend
            expected ==
                IF ev = None THEN old
                ELSE IF ev[1].is_correct
                     THEN IF RLeq(<<4, 5>>, ev[1].score)
                          THEN (IF RLeq(<<3, 5>>, avg) THEN "improving" ELSE "steady")
                          ELSE old
                     ELSE (IF RLt(avg, <<2, 5>>) THEN "struggling" ELSE "steady")
        IN  fn_result[1] = [s EXCEPT !.session_summary.progress_trend = expected]

\* a struggling session with average mastery 0.2 got a correct answer scored
\* 0.5 and is still struggling
C32_Witness ==
    /\ Called("_update_progress_trend")
    /\ fn_args[1].session.session_summary.progress_trend = "struggling"
    /\ AverageMastery(fn_args[1].session) = <<1, 5>>
    /\ Get(fn_args[1].outs, "evaluator") # None
    /\ fn_args[1].outs["evaluator"][1].is_correct
    /\ fn_args[1].outs["evaluator"][1].score = <<1, 2>>
    /\ fn_result[1].session_summary.progress_trend = "struggling"

\* C33: the reasoning effort of the decision call is "medium" exactly when the
\* session has more than 2 misconceptions, or a struggling trend, or more than
\* 2 stuck points, or a turn count above 15, and "low" otherwise.
C33_EffortRaisedBySignals ==
    Called("_determine_reasoning_effort") =>
        LET s == fn_args[1].session
            signal == \/ Len(s.misconceptions) > 2
                      \/ s.session_summary.progress_trend = "struggling"
                      \/ Len(s.session_summary.stuck_points) > 2
                      \/ s.turn_count > 15
        IN  /\ fn_result[1] \in {"low", "medium"}
            /\ (fn_result[1] = "medium") <=> signal

\* a session whose only difficulty signal is its turn count of 16 got "medium"
C33_Witness ==
    /\ Called("_determine_reasoning_effort")
    /\ fn_args[1].session.turn_count = 16
    /\ Len(fn_args[1].session.misconceptions) = 2
    /\ Len(fn_args[1].session.session_summary.stuck_points) = 2
    /\ fn_args[1].session.session_summary.progress_trend = "improving"
    /\ fn_result = Some("medium")

\* the pipeline threads that have not yet written "complete" or "failed"
EvalThreadsInPipeline == {i \in 1..Len(eval_thread) : eval_thread[i].at \in PipelinePlaces}

\* the accepted requests whose thread is not started yet
EvalRequestsAccepted == {r \in Requests : eval_request[r].at = "starting"}

\* a request is answered 409 in this step
EvalRejection ==
    \E r \in Requests : eval_request[r].answer # 409 /\ eval_request'[r].answer = 409

====
